---- MODULE Spec2Model ----
(***************************************************************************)
(* Model of the dependency-resolution engine of the gem version tools:     *)
(*   gem-compare-modules.py  expand_variable, extract_version,             *)
(*                           extract_support, mod_version, IocDecoder      *)
(*   versions.py             Macro, get_dependencies                       *)
(*                                                                         *)
(* A Python string is modelled as a sequence of one-character strings, so  *)
(* that replace / split / strip / regular-expression matching are computed *)
(* the way the library computes them.                                      *)
(***************************************************************************)
EXTENDS Integers, Sequences, FiniteSets, TLC

(***************************************************************************)
(* String library (str and os.path as used by the sources)                 *)
(***************************************************************************)

\* str.isspace for the characters that occur in the modelled files
IsSpace(c) == c \in {" ", "\t", "\n"}

\* \d of the re module
IsDigit(c) == c \in {"0", "1", "2", "3", "4", "5", "6", "7", "8", "9"}

\* [a-zA-Z0-9_] of Macro.pattern: of the characters that occur in the modelled
\* files, every one that is not punctuation or white space
IsNameChar(c) ==
    /\ ~IsSpace(c)
    /\ c \notin {"$", "(", ")", "/", "#", "=", "\\", "-", ".", "+", ":"}

\* pat occurs in s at position i
StartsWithAt(s, pat, i) ==
    /\ i >= 1
    /\ i + Len(pat) - 1 <= Len(s)
    /\ \A k \in 1..Len(pat) : s[i + k - 1] = pat[k]

\* pat in s
Contains(s, pat) == pat = <<>> \/ \E i \in 1..Len(s) : StartsWithAt(s, pat, i)

RECURSIVE ReplaceFrom(_, _, _, _)
ReplaceFrom(s, old, new, i) ==
    IF i > Len(s) THEN <<>>
    ELSE IF StartsWithAt(s, old, i)
         THEN new \o ReplaceFrom(s, old, new, i + Len(old))
         ELSE <<s[i]>> \o ReplaceFrom(s, old, new, i + 1)

\* s.replace(old, new): every non-overlapping occurrence, left to right
\* (old is never empty here: it is always "$(" + name + ")")
StrReplace(s, old, new) == ReplaceFrom(s, old, new, 1)

RECURSIVE SplitFrom(_, _, _, _)
SplitFrom(s, ch, i, cur) ==
    IF i > Len(s) THEN <<cur>>
    ELSE IF s[i] = ch
         THEN <<cur>> \o SplitFrom(s, ch, i + 1, <<>>)
         ELSE SplitFrom(s, ch, i + 1, Append(cur, s[i]))

\* s.split(ch): always at least one piece
StrSplit(s, ch) == SplitFrom(s, ch, 1, <<>>)

RECURSIVE LStrip(_)
LStrip(s) == IF s # <<>> /\ IsSpace(Head(s)) THEN LStrip(Tail(s)) ELSE s

RECURSIVE RStrip(_)
RStrip(s) ==
    IF s # <<>> /\ IsSpace(s[Len(s)]) THEN RStrip(SubSeq(s, 1, Len(s) - 1)) ELSE s

\* s.strip()
StrStrip(s) == LStrip(RStrip(s))

RECURSIVE RStripSlash(_)
RStripSlash(s) ==
    IF s # <<>> /\ s[Len(s)] = "/" THEN RStripSlash(SubSeq(s, 1, Len(s) - 1)) ELSE s

\* s.rfind('/') + 1
LastSlash(s) ==
    IF \E i \in 1..Len(s) : s[i] = "/"
    THEN CHOOSE i \in 1..Len(s) : s[i] = "/" /\ \A j \in (i + 1)..Len(s) : s[j] # "/"
    ELSE 0

\* os.path.split(p) = <<head, tail>> (posixpath)
OsPathSplit(p) ==
    LET i    == LastSlash(p)
        head == SubSeq(p, 1, i)
        tail == SubSeq(p, i + 1, Len(p))
    IN  <<IF head # <<>> /\ (\E k \in 1..Len(head) : head[k] # "/")
          THEN RStripSlash(head) ELSE head,
          tail>>

\* os.path.join(a, b) (posixpath): an absolute b discards a
OsPathJoin(a, b) ==
    IF b # <<>> /\ b[1] = "/" THEN b
    ELSE IF a = <<>> \/ a[Len(a)] = "/" THEN a \o b
    ELSE a \o <<"/">> \o b

\* os.path.join(parts[1], parts[2], ...)
RECURSIVE JoinFrom(_, _, _)
JoinFrom(parts, i, acc) ==
    IF i > Len(parts) THEN acc ELSE JoinFrom(parts, i + 1, OsPathJoin(acc, parts[i]))

OsPathJoinAll(parts) == JoinFrom(parts, 2, parts[1])

\* the loop of os.path.normpath over the components: '' and '.' are dropped,
\* '..' removes the component before it
RECURSIVE NormComps(_, _, _, _)
NormComps(comps, i, new, rooted) ==
    IF i > Len(comps) THEN new
    ELSE LET c == comps[i]
         IN  IF c = <<>> \/ c = <<".">> THEN NormComps(comps, i + 1, new, rooted)
             ELSE IF \/ c # <<".", ".">>
                     \/ (~rooted /\ new = <<>>)
                     \/ (new # <<>> /\ new[Len(new)] = <<".", ".">>)
                  THEN NormComps(comps, i + 1, Append(new, c), rooted)
             ELSE IF new # <<>>
                  THEN NormComps(comps, i + 1, SubSeq(new, 1, Len(new) - 1), rooted)
             ELSE NormComps(comps, i + 1, new, rooted)

\* '/'.join(comps)
RECURSIVE SlashJoin(_)
SlashJoin(comps) ==
    IF comps = <<>> THEN <<>>
    ELSE IF Len(comps) = 1 THEN comps[1]
    ELSE comps[1] \o <<"/">> \o SlashJoin(Tail(comps))

\* os.path.normpath (posixpath)
OsPathNormpath(p) ==
    LET slashes == IF p # <<>> /\ p[1] = "/"
                   THEN IF StartsWithAt(p, <<"/", "/">>, 1) /\ ~StartsWithAt(p, <<"/", "/", "/">>, 1)
                        THEN <<"/", "/">> ELSE <<"/">>
                   ELSE <<>>
        body    == SlashJoin(NormComps(StrSplit(p, "/"), 1, <<>>, slashes # <<>>))
    IN  IF p = <<>> THEN <<".">>
        ELSE IF slashes \o body = <<>> THEN <<".">>
        ELSE slashes \o body

\* os.getcwd()
Cwd == <<"/", "h">>

\* os.path.abspath
OsPathAbspath(p) == OsPathNormpath(OsPathJoin(Cwd, p))

\* s.partition(ch) = <<before, after>>
Partition(s, ch) ==
    LET at == { k \in 1..Len(s) : s[k] = ch }
    IN  IF at = {} THEN <<s, <<>>>>
        ELSE LET k == CHOOSE k \in at : \A h \in at : k <= h
             IN  <<SubSeq(s, 1, k - 1), SubSeq(s, k + 1, Len(s))>>

\* s.endswith(suffix)
EndsWith(s, suffix) == StartsWithAt(s, suffix, Len(s) - Len(suffix) + 1)

LowerChar(c) ==
    CASE c = "A" -> "a" [] c = "B" -> "b" [] c = "C" -> "c" [] c = "D" -> "d"
      [] c = "E" -> "e" [] c = "F" -> "f" [] c = "G" -> "g" [] c = "H" -> "h"
      [] c = "I" -> "i" [] c = "J" -> "j" [] c = "K" -> "k" [] c = "L" -> "l"
      [] c = "M" -> "m" [] c = "N" -> "n" [] c = "O" -> "o" [] c = "P" -> "p"
      [] c = "Q" -> "q" [] c = "R" -> "r" [] c = "S" -> "s" [] c = "T" -> "t"
      [] c = "U" -> "u" [] c = "V" -> "v" [] c = "W" -> "w" [] c = "X" -> "x"
      [] c = "Y" -> "y" [] c = "Z" -> "z" [] OTHER -> c

\* s.lower()
Lower(s) == [k \in 1..Len(s) |-> LowerChar(s[k])]

\* "$(" + name + ")"
Ref(name) == <<"$", "(">> \o name \o <<")">>

(***************************************************************************)
(* gem-compare-modules.py                                                  *)
(***************************************************************************)

EXCLUDE_MODULES ==
    { <<"E", "P", "I", "C", "S", "_", "R", "E", "L", "E", "A", "S", "E">>,
      <<"E", "P", "I", "C", "S", "_", "B", "A", "S", "E">> }

\* var_dict is a dict: a sequence of [name, sub] in insertion order
DictHas(d, k) == \E i \in 1..Len(d) : d[i].name = k

DictGet(d, k) == d[CHOOSE i \in 1..Len(d) : d[i].name = k].sub

\* (mutant) defining k also resolves the references to k in the values stored
\* before it
DictSetForward(d, k, v) ==
    LET e == [i \in 1..Len(d) |->
                 [name |-> d[i].name, sub |-> StrReplace(d[i].sub, Ref(k), v)]]
    IN  IF DictHas(e, k)
        THEN [i \in 1..Len(e) |-> IF e[i].name = k THEN [name |-> k, sub |-> v] ELSE e[i]]
        ELSE Append(e, [name |-> k, sub |-> v])

\* d[k] = v: an existing key keeps its place, a new one goes last
DictSet(d, k, v) ==
    IF DictHas(d, k)
    THEN [i \in 1..Len(d) |-> IF d[i].name = k THEN [name |-> k, sub |-> v] ELSE d[i]]
    ELSE Append(d, [name |-> k, sub |-> v])

RECURSIVE ExpandFrom(_, _, _)
ExpandFrom(d, value, i) ==
    IF i > Len(d) THEN value
    ELSE ExpandFrom(d, StrReplace(value, Ref(d[i].name), d[i].sub), i + 1)

\* for name, sub in var_dict.items(): value = value.replace(f'$({name})', sub)
expand_variable(d, value) == ExpandFrom(d, value, 1)

\* (mutant) re.match(r'^\d+[-.]\d+', s)
MatchesReleaseDotOrDash(s) ==
    \E n \in 1..Len(s) :
        /\ \A k \in 1..n : IsDigit(s[k])
        /\ n + 2 <= Len(s)
        /\ s[n + 1] \in {"-", "."}
        /\ IsDigit(s[n + 2])

\* re.match(r'^\d+-\d+', s)
MatchesRelease(s) ==
    \E n \in 1..Len(s) :
        /\ \A k \in 1..n : IsDigit(s[k])
        /\ n + 2 <= Len(s)
        /\ s[n + 1] = "-"
        /\ IsDigit(s[n + 2])

None == <<"None">>

extract_version(path) ==
    LET potential == OsPathSplit(path)[2]
    IN  IF MatchesRelease(potential) THEN potential ELSE None

mod_version(mod) == IF mod.version # None THEN mod.version ELSE mod.path

(***************************************************************************)
(* State                                                                   *)
(***************************************************************************)
VARIABLES
    fs,             \* the paths that exist in the filesystem
    links,          \* the symbolic links: [name |-> link, sub |-> its real path]
    file,           \* the lines of the configure/RELEASE file
    ioc_name,       \* extract_support's argument: the requesting entity
    top,            \* extract_support's argument: the entity's top directory
    exPc,           \* extract_support: "call", "loop", "returned", "raised"
    exIdx,          \* extract_support: the line the for loop reads next
    var_dict,       \* extract_support: the macro table
    release_info,   \* extract_support: the list of Support records
    exRaised,       \* extract_support: the IOError raised, or NoError
    gdPc,           \* get_dependencies: "call", "loop", "returned", "raised"
    gdIdx,          \* get_dependencies: the line the for loop reads next
    macro_dictionary, \* Macro.macro_dictionary of get_dependencies' Macro
    output_list,    \* get_dependencies: the tuples collected (the result once returned)
    gdRaised,       \* get_dependencies: the exception that left it, or NoError
    vPath,          \* the expanded path whose version is reported
    vPc,            \* "call", "extracted", "reported"
    vMod,           \* the Support record built for vPath
    vReported,      \* mod_version of the record
    args,           \* args['IOC:VERSION'], the requests of the compare run
    argIdx,         \* the request map() hands to decode next
    decPc,          \* decode: "call", "walk", "check"; "decoded", "raised" at the end
    decPath,        \* decode: the local path
    decLast,        \* decode: the local last of the walk
    seen,           \* IocDecoder.seen
    ioc_details,    \* the IocData records decoded so far
    decRaised,      \* the IOError decode raised, or NoError
    mainPc,         \* __main__: "decode", "extract", "extracting", "report", "rows";
                    \* "done", "exit", "crashed" at the end
    iocIdx,         \* __main__: the entity the for loop of line 209 reads next
    ioc_info,       \* __main__: unique_id -> {variable: version}
    widest,         \* __main__: unique_id -> column width
    all_modules,    \* __main__: the set of variable names
    std_index,      \* print_report: the index of the standard, 0 while unbound
    printed,        \* the lines printed on standard output
    mainRaised,     \* the exception that left __main__ uncaught, or NoError
    ioc_link,       \* the redirector link an IOC object is filled from
    iocPc,          \* IOC: "call", "constructed"; "set", "raised" at the end
    iocAttrs,       \* the attributes of the IOC object
    files,          \* the paths of fs that are regular files (the others are directories)
    catCall,        \* the catalog listing called, with its arguments
    catPc,          \* catalog listing: "call"; "returned", "raised" at the end
    catResult,      \* the list the catalog listing returned
    installed,      \* the walk: the IOCs of the redirector and everyone's dependencies
    support_name_list,  \* the walk: the names asked for
    exclude_list,   \* the walk: the names left out
    epics_version_list, \* the walk: the EPICS versions asked for
    walkPc,         \* the walk: "iocs", "sups"; "done" at the end
    walkIdx,        \* the walk: the element the current for loop reads next
    walkSups,       \* the walk: sorted(ioc_dict)
    ioc_dict,       \* the walk: support module id -> the IOCs that use it
    sup_dict,       \* the walk: support module id -> SupportModule
    walkReads,      \* the walk: the entities whose dependencies were fetched
    walkOut,        \* the walk: the lines printed
    production,     \* what depends: the production area of each EPICS version asked for
    requested,      \* what depends: support_name_list
    whatPc,         \* what depends: "support", "ioc"; "done", "crashed" at the end
    whatEpics,      \* what depends: the EPICS version the for loop of line 527 is at
    whatIdx,        \* what depends: the element the current for loop reads next
    support_dict,   \* what depends: support module name -> names it depends on
    what_ioc_dict,  \* what depends: ioc_dict, IOC target -> names it depends on
    len_max,        \* what depends: the width of the first column
    whatOut,        \* what depends: the lines printed
    whatRaised      \* what depends: the exception that left the report, or NoError

exVars == <<exPc, exIdx, var_dict, release_info, exRaised>>
gdVars == <<gdPc, gdIdx, macro_dictionary, output_list, gdRaised>>
inVars == <<file, ioc_name, top>>
envVars == <<fs, links>>
decVars == <<args, argIdx, decPc, decPath, decLast, seen, ioc_details, decRaised>>
verVars == <<vPath, vPc, vMod, vReported>>
mainVars == <<mainPc, iocIdx, ioc_info, widest, all_modules, std_index, printed, mainRaised>>
iocVars == <<ioc_link, iocPc, iocAttrs>>
catVars == <<files, catCall, catPc, catResult>>
\* the state of the routines of versions.py above the RELEASE file
walkIn == <<installed, support_name_list, exclude_list, epics_version_list>>
walkVars == <<walkIn, walkPc, walkIdx, walkSups, ioc_dict, sup_dict, walkReads, walkOut>>
whatIn == <<production, requested>>
whatVars == <<whatIn, whatPc, whatEpics, whatIdx, support_dict, what_ioc_dict, len_max,
              whatOut, whatRaised>>
libVars == <<catVars, walkVars, whatVars>>
\* what the steps of the two file tools leave alone
otherThanFile == <<envVars, verVars, decVars, mainVars, iocVars, libVars>>
\* what the steps of the version report leave alone
otherThanVer == <<envVars, inVars, exVars, gdVars, decVars, mainVars, iocVars, libVars>>
\* what the steps of IocDecoder leave alone
otherThanDec == <<envVars, inVars, exVars, gdVars, verVars, mainVars, iocVars, libVars>>
\* what the steps of the IOC object leave alone
otherThanIoc == <<envVars, inVars, exVars, gdVars, verVars, decVars, mainVars, libVars>>
\* what a catalog listing leaves alone
otherThanCat ==
    <<envVars, inVars, exVars, gdVars, verVars, decVars, mainVars, iocVars, walkVars, whatVars>>
\* what the steps of the walk leave alone
otherThanWalk ==
    <<envVars, inVars, exVars, gdVars, verVars, decVars, mainVars, iocVars, catVars, whatVars>>
\* what the steps of the what-depends report leave alone
otherThanWhat ==
    <<envVars, inVars, exVars, gdVars, verVars, decVars, mainVars, iocVars, catVars, walkVars>>
vars == <<envVars, inVars, exVars, gdVars, verVars, decVars, mainVars, iocVars, libVars>>

NoError == [kind |-> "none"]

\* os.path.realpath: the target of a link, the absolute path of anything else
OsPathRealpath(path) ==
    IF DictHas(links, path) THEN DictGet(links, path) ELSE OsPathAbspath(path)

\* os.path.exists: a link exists when its target does
OsPathExists(path) == OsPathRealpath(path) \in fs

sConfigure == <<"c", "o", "n", "f", "i", "g", "u", "r", "e">>
sRELEASE == <<"R", "E", "L", "E", "A", "S", "E">>
sLib == <<"l", "i", "b">>

\* os.path.join(top, 'configure', 'RELEASE')
ReleaseFile(t) == OsPathJoin(OsPathJoin(t, sConfigure), sRELEASE)

(***************************************************************************)
(* extract_support, one action per step of its loop                        *)
(***************************************************************************)

\* (mutant) the comment is not removed
CleanLineKeepComment(line) == StrStrip(line)

\* line.split('#')[0].strip()
CleanLine(line) == StrStrip(StrSplit(line, "#")[1])

\* [text.strip() for text in line.split('=')]
Fields(clean) ==
    LET parts == StrSplit(clean, "=")
    IN  [i \in 1..Len(parts) |-> StrStrip(parts[i])]

\* the unpacking var_name, value = [...] raises ValueError unless there are two
Unpacks(clean) == Len(Fields(clean)) = 2

Support(var, path, version) == [var |-> var, path |-> path, version |-> version]

\* (mutant) the bookkeeping variables are not excluded
AcceptedAnyName(var_name, expanded) == OsPathExists(OsPathJoin(expanded, sLib))

\* the test of line 80
Accepted(var_name, expanded) ==
    /\ var_name \notin EXCLUDE_MODULES
    /\ OsPathExists(OsPathJoin(expanded, sLib))

\* lines 80-81: release_info after the line
Emit(info, var_name, expanded) ==
    IF Accepted(var_name, expanded)
    THEN Append(info, Support(var_name, expanded, extract_version(expanded)))
    ELSE info

\* (mutant) only an accepted dependency is registered
RegisterAccepted(d, var_name, expanded) ==
    IF Accepted(var_name, expanded) THEN DictSet(d, var_name, expanded) ELSE d

\* line 82: var_dict[var_name] = expanded
Register(d, var_name, expanded) == DictSet(d, var_name, expanded)

\* (mutant) the message names the file only
ExtractErrorNoName(name, filename) ==
    [kind |-> "IOError", ioc_name |-> <<>>, filename |-> filename]

\* IOError(f"Extracting modules for {ioc_name}: No such file {e.filename}")
ExtractError(name, filename) ==
    [kind |-> "IOError", ioc_name |-> name, filename |-> filename]

\* open(...) of line 74: the loop starts, or IOError is caught and raised again
\* with the entity's name and e.filename in its message
extract_open ==
    /\ exPc = "call"
    /\ IF OsPathExists(ReleaseFile(top))
       THEN /\ exPc' = "loop"
            /\ exRaised' = exRaised
       ELSE /\ exPc' = "raised"
            /\ exRaised' = ExtractError(ioc_name, ReleaseFile(top))
    /\ UNCHANGED <<exIdx, var_dict, release_info, inVars, gdVars, otherThanFile>>

\* one iteration of the for loop, lines 75-84
extract_line ==
    /\ exPc = "loop"
    /\ exIdx <= Len(file)
    /\ LET clean == CleanLine(file[exIdx])
       IN  IF clean # <<>> /\ Unpacks(clean)
           THEN LET var_name == Fields(clean)[1]
                    value    == Fields(clean)[2]
                    expanded == expand_variable(var_dict, value)
                IN  /\ release_info' = Emit(release_info, var_name, expanded)
                    /\ var_dict' = Register(var_dict, var_name, expanded)
           ELSE UNCHANGED <<var_dict, release_info>>
    /\ exIdx' = exIdx + 1
    /\ UNCHANGED <<exPc, exRaised, inVars, gdVars, otherThanFile>>

\* return release_info, line 88
extract_return ==
    /\ exPc = "loop"
    /\ exIdx > Len(file)
    /\ exPc' = "returned"
    /\ UNCHANGED <<exIdx, var_dict, release_info, exRaised, inVars, gdVars, otherThanFile>>

extract_support == extract_open \/ extract_line \/ extract_return

(***************************************************************************)
(* versions.py: Macro and get_dependencies                                 *)
(***************************************************************************)

MATURITY_PROD == <<"p", "r", "o", "d">>
MATURITY_WORK == <<"w", "o", "r", "k">>
MATURITY_TEST == <<"t", "e", "s", "t">>

\* the end of the match of Macro.pattern, \$\([a-zA-Z0-9_]+\), that starts at i,
\* or 0 when there is none
RECURSIVE NameEnd(_, _)
NameEnd(s, j) == IF j <= Len(s) /\ IsNameChar(s[j]) THEN NameEnd(s, j + 1) ELSE j

MatchEnd(s, i) ==
    IF StartsWithAt(s, <<"$", "(">>, i)
    THEN LET j == NameEnd(s, i + 2)
         IN  IF j > i + 2 /\ j <= Len(s) /\ s[j] = ")" THEN j ELSE 0
    ELSE 0

\* self.pattern.finditer(line): the names of the references, left to right
RECURSIVE FindMacros(_, _)
FindMacros(s, i) ==
    IF i > Len(s) THEN <<>>
    ELSE IF MatchEnd(s, i) # 0
         THEN <<SubSeq(s, i + 2, MatchEnd(s, i) - 1)>> \o FindMacros(s, MatchEnd(s, i) + 1)
         ELSE FindMacros(s, i + 1)

\* The replacement argument of re.sub is a template: a backslash starts an
\* escape.  '\\' is a backslash; a backslash before a digit is a group
\* reference, and the pattern has no group; a backslash at the end is a bad
\* escape.  Before punctuation it stays as it is.  (A backslash before a letter
\* does not occur in the modelled files.)
RECURSIVE TemplateOk(_, _)
TemplateOk(t, i) ==
    IF i > Len(t) THEN TRUE
    ELSE IF t[i] # "\\" THEN TemplateOk(t, i + 1)
    ELSE IF i = Len(t) THEN FALSE
    ELSE IF IsDigit(t[i + 1]) THEN FALSE
    ELSE TemplateOk(t, i + 2)

RECURSIVE TemplateText(_, _)
TemplateText(t, i) ==
    IF i > Len(t) THEN <<>>
    ELSE IF t[i] # "\\" \/ i = Len(t) THEN <<t[i]>> \o TemplateText(t, i + 1)
    ELSE IF t[i + 1] = "\\" THEN <<"\\">> \o TemplateText(t, i + 2)
    ELSE <<t[i], t[i + 1]>> \o TemplateText(t, i + 2)

\* re.sub(r'\$\(' + macro_name + r'\)', repl, line); ReError when re.error is raised
ReError == <<"re.error">>

ReSub(macro_name, repl, line) ==
    IF ~TemplateOk(repl, 1) THEN ReError
    ELSE StrReplace(line, Ref(macro_name), TemplateText(repl, 1))

\* the for loop of _replace_macros over the matches found in the original line
RECURSIVE ReplaceEach(_, _, _, _)
ReplaceEach(dict, names, i, line) ==
    IF i > Len(names) \/ line = ReError THEN line
    ELSE IF DictHas(dict, names[i])
         THEN ReplaceEach(dict, names, i + 1, ReSub(names[i], DictGet(dict, names[i]), line))
         ELSE ReplaceEach(dict, names, i + 1, line)

\* Macro._replace_macros
_replace_macros(dict, line) ==
    IF dict # <<>> THEN ReplaceEach(dict, FindMacros(line, 1), 1, line) ELSE line

\* Macro.process_line: [l_val, r_val, dict, raised]
process_line(dict, line) ==
    IF Contains(line, <<"=">>)
    THEN LET parts == StrSplit(line, "=")
         IN  IF Len(parts) # 2
             THEN [l_val |-> <<>>, r_val |-> <<>>, dict |-> dict, raised |-> "ValueError"]
             ELSE LET l_val == StrStrip(parts[1])
                      r_val == _replace_macros(dict, StrStrip(parts[2]))
                  IN  IF r_val = ReError
                      THEN [l_val |-> l_val, r_val |-> <<>>, dict |-> dict,
                            raised |-> "re.error"]
                      ELSE [l_val |-> l_val, r_val |-> r_val,
                            dict |-> DictSet(dict, l_val, r_val), raised |-> "none"]
    ELSE [l_val |-> line, r_val |-> <<>>, dict |-> dict, raised |-> "none"]

\* the arguments prod_support and work_support: the support modules available
prod_support == { <<"m">> }
work_support == { <<"m">> }

\* x in lst
InList(x, lst) == \E i \in 1..Len(lst) : lst[i] = x

\* lst[-k]
FromEnd(lst, k) == lst[Len(lst) + 1 - k]

\* lines 256-274: the tuples the line adds, or IndexError
Dependency(r_val) ==
    LET lst == StrSplit(r_val, "/")
    IN  IF Len(lst) <= 1 THEN [raised |-> "none", add |-> <<>>]
        ELSE IF InList(MATURITY_WORK, lst)
        THEN IF Len(lst) < 3 THEN [raised |-> "IndexError", add |-> <<>>]
             ELSE [raised |-> "none",
                   add |-> IF FromEnd(lst, 1) \in work_support
                           THEN << <<FromEnd(lst, 1), MATURITY_WORK, FromEnd(lst, 3),
                                     MATURITY_WORK>> >>
                           ELSE <<>>]
        ELSE IF InList(MATURITY_PROD, lst)
        THEN IF Len(lst) < 4 THEN [raised |-> "IndexError", add |-> <<>>]
             ELSE [raised |-> "none",
                   add |-> IF FromEnd(lst, 2) \in prod_support
                           THEN << <<FromEnd(lst, 2), FromEnd(lst, 1), FromEnd(lst, 4),
                                     MATURITY_PROD>> >>
                           ELSE <<>>]
        ELSE [raised |-> "none", add |-> <<>>]

\* open(file_name, 'r'): IOError is caught and [] returned (lines 248, 278-279).
\* The two tools are separate programs: the model runs get_dependencies on the
\* file once extract_support has finished with it.
gd_open ==
    /\ gdPc = "call"
    /\ exPc \in {"returned", "raised"}
    /\ gdPc' = IF OsPathExists(ReleaseFile(top)) THEN "loop" ELSE "returned"
    /\ UNCHANGED <<gdIdx, macro_dictionary, output_list, gdRaised, inVars, exVars, otherThanFile>>

\* one iteration of the for loop, lines 249-274
gd_line ==
    /\ gdPc = "loop"
    /\ gdIdx <= Len(file)
    /\ LET line == StrStrip(file[gdIdx])
           pl   == process_line(macro_dictionary, line)
           dep  == Dependency(pl.r_val)
       IN  IF line # <<>> /\ line[1] = "#"
           THEN /\ gdIdx' = gdIdx + 1
                /\ UNCHANGED <<gdPc, macro_dictionary, output_list, gdRaised>>
           ELSE IF pl.raised # "none"
           THEN /\ gdPc' = "raised"
                /\ gdRaised' = [kind |-> pl.raised]
                /\ UNCHANGED <<gdIdx, macro_dictionary, output_list>>
           ELSE IF dep.raised # "none"
           THEN /\ gdPc' = "raised"
                /\ gdRaised' = [kind |-> dep.raised]
                /\ macro_dictionary' = pl.dict
                /\ UNCHANGED <<gdIdx, output_list>>
           ELSE /\ gdIdx' = gdIdx + 1
                /\ macro_dictionary' = pl.dict
                /\ output_list' = output_list \o dep.add
                /\ UNCHANGED <<gdPc, gdRaised>>
    /\ UNCHANGED <<inVars, exVars, otherThanFile>>

\* code points of the characters that occur in the modelled files
Ord(c) ==
    CASE c = "\t" -> 9   [] c = "\n" -> 10  [] c = " " -> 32  [] c = "#" -> 35
      [] c = "$" -> 36   [] c = "(" -> 40   [] c = ")" -> 41  [] c = "+" -> 43
      [] c = "-" -> 45   [] c = "." -> 46   [] c = "/" -> 47  [] c = "0" -> 48
      [] c = "1" -> 49   [] c = "2" -> 50   [] c = "3" -> 51  [] c = ":" -> 58
      [] c = "=" -> 61   [] c = "A" -> 65   [] c = "B" -> 66  [] c = "C" -> 67
      [] c = "E" -> 69   [] c = "I" -> 73   [] c = "L" -> 76  [] c = "P" -> 80
      [] c = "R" -> 82   [] c = "S" -> 83   [] c = "\\" -> 92 [] c = "_" -> 95
      [] c = "b" -> 98   [] c = "c" -> 99   [] c = "d" -> 100 [] c = "i" -> 105
      [] c = "k" -> 107  [] c = "l" -> 108  [] c = "m" -> 109 [] c = "n" -> 110
      [] c = "o" -> 111  [] c = "p" -> 112  [] c = "r" -> 114 [] c = "u" -> 117
      [] c = "w" -> 119  [] c = "x" -> 120  [] c = "4" -> 52  [] c = "8" -> 56
      [] c = "D" -> 68   [] c = "M" -> 77   [] c = "a" -> 97  [] c = "e" -> 101
      [] c = "g" -> 103  [] c = "s" -> 115  [] c = "t" -> 116
      [] OTHER -> 128

\* a < b for str
RECURSIVE StrLess(_, _)
StrLess(a, b) ==
    IF b = <<>> THEN FALSE
    ELSE IF a = <<>> THEN TRUE
    ELSE IF a[1] = b[1] THEN StrLess(Tail(a), Tail(b))
    ELSE Ord(a[1]) < Ord(b[1])

\* a < b for tuples of str
RECURSIVE TupleLess(_, _)
TupleLess(a, b) ==
    IF b = <<>> THEN FALSE
    ELSE IF a = <<>> THEN TRUE
    ELSE IF a[1] = b[1] THEN TupleLess(Tail(a), Tail(b))
    ELSE StrLess(a[1], b[1])

\* sorted(output_list)
Sorted(lst) == SortSeq(lst, TupleLess)

\* return sorted(output_list), lines 275-277
gd_return ==
    /\ gdPc = "loop"
    /\ gdIdx > Len(file)
    /\ gdPc' = "returned"
    /\ output_list' = Sorted(output_list)
    /\ UNCHANGED <<gdIdx, macro_dictionary, gdRaised, inVars, exVars, otherThanFile>>

get_dependencies == gd_open \/ gd_line \/ gd_return

(***************************************************************************)
(* gem-compare-modules.py: IocDecoder                                      *)
(***************************************************************************)

ROOT == <<"/", "g", "e", "m", "_", "s", "w">>

\* Environment(ROOT, release, site) of the run: --epics and --site
EnvRelease == <<"R">>
EnvSite == <<"c", "p">>

sProd == <<"p", "r", "o", "d">>
sWork == <<"w", "o", "r", "k">>
sIoc == <<"i", "o", "c">>
sRedirector == <<"r", "e", "d", "i", "r", "e", "c", "t", "o", "r">>
sBin == <<"b", "i", "n">>
sCurrent == <<"c", "u", "r", "r", "e", "n", "t">>

get_ioc_from_target(target, site) ==
    IF EndsWith(target, <<"-", "i", "o", "c">>) THEN target
    ELSE target \o <<"-">> \o site \o <<"-", "i", "o", "c">>

\* lines 102-111: the fields decode reads from ioc_ver
ReqGolden(ioc_ver) ==
    LET raw == Partition(Partition(ioc_ver, ":")[1], "/")[1]
    IN  raw # <<>> /\ raw[1] = "+"

ReqTarget(ioc_ver) ==
    LET raw == Partition(Partition(ioc_ver, ":")[1], "/")[1]
    IN  IF ReqGolden(ioc_ver) THEN Tail(raw) ELSE raw

ReqSite(ioc_ver) ==
    LET maybe == Partition(Partition(ioc_ver, ":")[1], "/")[2]
    IN  IF maybe # <<>> THEN maybe ELSE EnvSite

ReqName(ioc_ver) == get_ioc_from_target(ReqTarget(ioc_ver), ReqSite(ioc_ver))

ReqVersion(ioc_ver) ==
    LET version == Partition(ioc_ver, ":")[2]
    IN  IF version = <<>> THEN sCurrent ELSE version

\* line 115
ReqLink(ioc_ver) == OsPathJoinAll(<<ROOT, sProd, sRedirector, ReqName(ioc_ver)>>)

\* lines 125-130: the path of a request that is not 'current'
ReqPath(ioc_ver) ==
    LET version == ReqVersion(ioc_ver)
    IN  IF Lower(version) = sWork
        THEN OsPathJoinAll(<<ROOT, sWork, EnvRelease, sIoc, ReqTarget(ioc_ver),
                             ReqSite(ioc_ver)>>)
        ELSE IF OsPathExists(version) THEN OsPathAbspath(version)
        ELSE OsPathJoinAll(<<ROOT, sProd, EnvRelease, sIoc, ReqTarget(ioc_ver),
                             ReqSite(ioc_ver), version>>)

\* the local last before the loop assigns it
Unbound == <<"unbound">>

\* IOError(f"Error finding '{ioc_ver}': No such link under the redirector")
NoLinkError(ioc_ver) == [kind |-> "NoLink", ioc_ver |-> ioc_ver]

\* IOError(f"Error finding '{ioc_ver}': Non-standard deployment")
NonStandardError(ioc_ver) == [kind |-> "NonStandard", ioc_ver |-> ioc_ver]

\* IOError(f"Error finding '{ioc_ver}': Path does not exist '{path}'")
NoPathError(ioc_ver, path) == [kind |-> "NoPath", ioc_ver |-> ioc_ver, path |-> path]

\* lines 102-130 up to the walk: the branch on the version
decode_start ==
    /\ decPc = "call"
    /\ argIdx <= Len(args)
    /\ LET ioc_ver == args[argIdx]
       IN  IF Lower(ReqVersion(ioc_ver)) = sCurrent
           THEN IF ~OsPathExists(ReqLink(ioc_ver))
                THEN /\ decPc' = "raised"
                     /\ decRaised' = NoLinkError(ioc_ver)
                     /\ UNCHANGED <<decPath, decLast>>
                ELSE /\ decPc' = "walk"
                     /\ decPath' = OsPathRealpath(ReqLink(ioc_ver))
                     /\ decLast' = Unbound
                     /\ UNCHANGED decRaised
           ELSE /\ decPc' = "check"
                /\ decPath' = ReqPath(ioc_ver)
                /\ decLast' = Unbound
                /\ UNCHANGED decRaised
    /\ UNCHANGED <<args, argIdx, seen, ioc_details, otherThanDec>>

\* (mutant) the walk stops on the bin directory itself
WalkKeepBin(path) ==
    IF OsPathSplit(path)[2] = sBin THEN <<path, sBin>> ELSE OsPathSplit(path)

\* line 120: path, last = os.path.split(path)
Walk(path) == OsPathSplit(path)

\* lines 119-124: the test of the while and one pass through its body; the else
\* clause runs when the test fails
decode_walk ==
    /\ decPc = "walk"
    /\ IF ReqLink(args[argIdx]) # <<"/">>
       THEN /\ decPath' = Walk(decPath)[1]
            /\ decLast' = Walk(decPath)[2]
            /\ decPc' = IF Walk(decPath)[2] = sBin THEN "check" ELSE "walk"
            /\ UNCHANGED decRaised
       ELSE /\ decPc' = "raised"
            /\ decRaised' = NonStandardError(args[argIdx])
            /\ UNCHANGED <<decPath, decLast>>
    /\ UNCHANGED <<args, argIdx, seen, ioc_details, otherThanDec>>

\* (mutant) the path is not tested
PathOkAlways(path) == TRUE

\* line 131: os.path.exists(path)
PathOk(path) == OsPathExists(path)

\* self.seen[ioc_target], a defaultdict(int)
SeenCount(target) == IF DictHas(seen, target) THEN DictGet(seen, target) ELSE 0

\* str(n)
RECURSIVE Digits(_)
Digits(n) ==
    CASE n = 0 -> <<"0">> [] n = 1 -> <<"1">> [] n = 2 -> <<"2">> [] n = 3 -> <<"3">>
      [] n = 4 -> <<"4">> [] n = 5 -> <<"5">> [] n = 6 -> <<"6">> [] n = 7 -> <<"7">>
      [] n = 8 -> <<"8">> [] n = 9 -> <<"9">>
      [] OTHER -> Digits(n \div 10) \o Digits(n % 10)

\* (mutant) the label carries the number of earlier occurrences
UniqueFromCount(target, count) ==
    IF count = 0 THEN target ELSE target \o <<"(">> \o Digits(count) \o <<")">>

\* line 135
Unique(target, count) ==
    IF count = 0 THEN target ELSE target \o <<"(">> \o Digits(count + 1) \o <<")">>

IocData(unique_id, target, full_name, site, t, golden) ==
    [unique_id |-> unique_id, target |-> target, full_name |-> full_name,
     site |-> site, top |-> t, golden |-> golden]

\* lines 131-143: the test of the path, the label and the record returned
decode_check ==
    /\ decPc = "check"
    /\ LET ioc_ver == args[argIdx]
           target  == ReqTarget(ioc_ver)
       IN  IF ~PathOk(decPath)
           THEN /\ decPc' = "raised"
                /\ decRaised' = NoPathError(ioc_ver, decPath)
                /\ UNCHANGED <<argIdx, seen, ioc_details>>
           ELSE /\ decPc' = "call"
                /\ argIdx' = argIdx + 1
                /\ seen' = DictSet(seen, target, SeenCount(target) + 1)
                /\ ioc_details' =
                      Append(ioc_details,
                             IocData(Unique(target, SeenCount(target)), target,
                                     ReqName(ioc_ver), ReqSite(ioc_ver), decPath,
                                     ReqGolden(ioc_ver)))
                /\ UNCHANGED decRaised
    /\ UNCHANGED <<args, decPath, decLast, otherThanDec>>

\* line 200: map() has decoded every request
decode_done ==
    /\ decPc = "call"
    /\ argIdx > Len(args)
    /\ decPc' = "decoded"
    /\ UNCHANGED <<args, argIdx, decPath, decLast, seen, ioc_details, decRaised,
                   otherThanDec>>

IocDecoder == decode_start \/ decode_walk \/ decode_check \/ decode_done

(***************************************************************************)
(* The files, the filesystems and the calls the model runs on              *)
(***************************************************************************)

\* the longest RELEASE file
MaxLines == 3

nA == <<"A">>
nB == <<"B">>
nC == <<"C">>
nBase == <<"E", "P", "I", "C", "S", "_", "B", "A", "S", "E">>
nRelease == <<"E", "P", "I", "C", "S", "_", "R", "E", "L", "E", "A", "S", "E">>
dirP == <<"/", "p">>
dirP12 == <<"/", "p", "/", "1", "-", "2">>

\* name = value
Line(name, value) == name \o <<" ", "=", " ">> \o value

LinePool ==
    { Line(nA, Ref(nB)),                                      \* A = $(B)
      Line(nB, dirP),                                         \* B = /p
      Line(nC, Ref(nA)),                                      \* C = $(A)
      Line(nC, Ref(nB) \o <<"/", "1", "-", "2", " ", "#", "c">>),  \* C = $(B)/1-2 #c
      Line(nBase, dirP),                                      \* EPICS_BASE = /p
      Line(nRelease, Ref(nBase)),                             \* EPICS_RELEASE = $(EPICS_BASE)
      Line(nB, <<"\\", "1">>),                                \* B = \1
      Line(nA, nB \o <<"=">> \o dirP),                        \* A = B=/p
      <<" ", "#", " ">> \o Line(nB, dirP),                    \*  # B = /p
      <<"l", "i", "b">> }                                     \* lib

Files == UNION { [1..n -> LinePool] : n \in 0..MaxLines }

topA == <<"/", "a">>
topB == <<"/", "b">>

\* the filesystems: /a/configure/RELEASE exists in all of them, /b/configure/RELEASE
\* in none
FsChoices ==
    { {ReleaseFile(topA), OsPathJoin(dirP, sLib)},
      {ReleaseFile(topA), OsPathJoin(dirP12, sLib)},
      {ReleaseFile(topA), OsPathJoin(dirP, sLib), OsPathJoin(dirP12, sLib)} }

\* the calls extract_support(env, ioc_name, top)
Calls ==
    { [ioc_name |-> <<"a", "g">>, top |-> topA],
      [ioc_name |-> <<"a", "g">>, top |-> topB],
      [ioc_name |-> <<"m", "c">>, top |-> topB] }

\* the most requests of a compare run
MaxArgs == 3

\* the usage line asks for IOC:VERSION IOC:VERSION...: two requests or more
MinArgs == 2

sAg == <<"a", "g">>
sMc == <<"m", "c">>

\* the requests IOC:VERSION
Requests ==
    { sAg,                                                    \* ag
      <<"+">> \o sAg \o <<":">> \o sWork,                     \* +ag:work
      sAg \o <<"/", "m", "k", ":", "1", "-", "2">>,           \* ag/mk:1-2
      sMc \o <<":", "C", "u", "r", "r", "e", "n", "t">>,      \* mc:Current
      sMc \o <<":", "/", "x", "/">>,                          \* mc:/x/
      <<"+">> \o sMc }                                        \* +mc

ArgLists == UNION { [1..n -> Requests] : n \in MinArgs..MaxArgs }

\* '/' + '/'.join(segs)
AbsOf(segs) == <<"/">> \o SlashJoin(segs)

linkAg == OsPathJoinAll(<<ROOT, sProd, sRedirector, sAg \o <<"-", "c", "p", "-", "i", "o", "c">> >>)
linkMc == OsPathJoinAll(<<ROOT, sProd, sRedirector, sMc \o <<"-", "c", "p", "-", "i", "o", "c">> >>)

s12 == <<"1", "-", "2">>
\* /gem_sw/prod/R/ioc/ag/cp/1-2/bin/l/ag
realStd == AbsOf(<<Tail(ROOT), sProd, EnvRelease, sIoc, sAg, EnvSite, s12, sBin, <<"l">>, sAg>>)
\* /d/bin/t/bin/x
realTwoBin == AbsOf(<< <<"d">>, sBin, <<"t">>, sBin, <<"x">> >>)
\* /o/mc
realNoBin == AbsOf(<< <<"o">>, sMc>>)
\* /gem_sw/work/R/ioc/ag/cp
workAg == AbsOf(<<Tail(ROOT), sWork, EnvRelease, sIoc, sAg, EnvSite>>)
\* /gem_sw/prod/R/ioc/ag/mk/1-2
prodAgMk == AbsOf(<<Tail(ROOT), sProd, EnvRelease, sIoc, sAg, <<"m", "k">>, s12>>)
dirX == <<"/", "x">>

\* a path and the directories above it
Ancestors(p) ==
    { <<"/">> } \cup
    { SubSeq(p, 1, k - 1) : k \in { j \in 3..(Len(p) + 1) : j = Len(p) + 1 \/ p[j] = "/" } }

Tree(paths) == UNION { Ancestors(q) : q \in paths }

Symlink(link, real) == [name |-> link, sub |-> real]

\* the deployment trees: what exists, and where the redirector links lead
DecodeEnvs ==
    { [fs    |-> Tree({realStd, realNoBin, workAg, prodAgMk, dirX}),
       links |-> <<Symlink(linkAg, realStd), Symlink(linkMc, realNoBin)>>],
      [fs    |-> Tree({realTwoBin, prodAgMk}),
       links |-> <<Symlink(linkAg, realTwoBin)>>],
      [fs    |-> Tree({workAg}),
       links |-> <<Symlink(linkAg, realStd)>>],
      [fs    |-> Tree({realNoBin, realStd, workAg}),
       links |-> <<Symlink(linkAg, realNoBin), Symlink(linkMc, realStd)>>] }

\* IocDecoder(env), and the run about to decode its requests
DecodeInit ==
    /\ \E e \in DecodeEnvs : fs = e.fs /\ links = e.links
    /\ args \in ArgLists
    /\ argIdx = 1
    /\ decPc = "call"
    /\ decPath = <<>>
    /\ decLast = Unbound
    /\ seen = <<>>
    /\ ioc_details = <<>>
    /\ decRaised = NoError

DecodeIdle ==
    /\ args = <<>>
    /\ argIdx = 1
    /\ decPc = "idle"
    /\ decPath = <<>>
    /\ decLast = Unbound
    /\ seen = <<>>
    /\ ioc_details = <<>>
    /\ decRaised = NoError

\* the state of the file tools when a specification runs them
FileInit ==
    /\ fs \in FsChoices
    /\ links = <<>>
    /\ \E c \in Calls : ioc_name = c.ioc_name /\ top = c.top
    /\ file \in (IF ReleaseFile(top) \in fs THEN Files ELSE {<<>>})
    /\ exPc = "call"
    /\ exIdx = 1
    /\ var_dict = <<>>
    /\ release_info = <<>>
    /\ exRaised = NoError
    /\ gdPc = "call"
    /\ gdIdx = 1
    /\ macro_dictionary = <<>>
    /\ output_list = <<>>
    /\ gdRaised = NoError

\* the state of the file tools when a specification does not run them
FileIdle ==
    /\ ioc_name = <<>>
    /\ top = <<>>
    /\ file = <<>>
    /\ exPc = "idle"
    /\ exIdx = 1
    /\ var_dict = <<>>
    /\ release_info = <<>>
    /\ exRaised = NoError
    /\ gdPc = "idle"
    /\ gdIdx = 1
    /\ macro_dictionary = <<>>
    /\ output_list = <<>>
    /\ gdRaised = NoError

(***************************************************************************)
(* The version reported for a dependency: extract_version (line 81) and    *)
(* mod_version (line 214) applied to an expanded path                      *)
(***************************************************************************)

\* the longest last segment of the paths the version report is run on
MaxSeg == 3

SegChars == {"1", "2", "-", ".", "u"}

Segments == UNION { [1..n -> SegChars] : n \in 0..MaxSeg }

sIocStats == <<"i", "o", "c", "S", "t", "a", "t", "s">>

VersionPaths ==
    { pre \o seg : pre \in { <<>>, dirP \o <<"/">> }, seg \in Segments }
    \cup { <<"/">> \o sIocStats \o <<"/">> \o seg :
             seg \in { <<"3", "-", "1", "-", "1", "4", "-", "3", "-", "B", "R", "3", "1", "4">>,
                       <<"u", "n", "s", "t", "a", "b", "l", "e">> } }

NoMod == [var |-> <<>>, path |-> <<>>, version |-> None]

\* Support(var_name, expanded, extract_version(expanded)), line 81
version_extract ==
    /\ vPc = "call"
    /\ vMod' = Support(nA, vPath, extract_version(vPath))
    /\ vPc' = "extracted"
    /\ UNCHANGED <<vPath, vReported, otherThanVer>>

\* version = mod_version(mod), line 214
version_report ==
    /\ vPc = "extracted"
    /\ vReported' = mod_version(vMod)
    /\ vPc' = "reported"
    /\ UNCHANGED <<vPath, vMod, otherThanVer>>

VersionInit ==
    /\ vPath \in VersionPaths
    /\ vPc = "call"
    /\ vMod = NoMod
    /\ vReported = None

VersionIdle ==
    /\ vPath = <<>>
    /\ vPc = "idle"
    /\ vMod = NoMod
    /\ vReported = None

(***************************************************************************)
(* gem-compare-modules.py: __main__ and print_report                       *)
(***************************************************************************)

BRIGHT_YELLOW == "yellow"
BRIGHT_RED == "red"
NoColor == ""

\* the cell of an entity that does not have the variable
Placeholder == <<"-", "-", "-">>

Max(a, b) == IF a >= b THEN a ELSE b

Spaces(n) == [i \in 1..n |-> " "]

\* f"{text:{width}}": padded on the right, never cut
PadRight(text, width) == text \o Spaces(Max(width - Len(text), 0))

\* str.center(width): the odd space goes to the left when the width is odd
Center(text, width) ==
    LET marg  == Max(width - Len(text), 0)
        left  == (marg \div 2) + (IF marg % 2 = 1 /\ width % 2 = 1 THEN 1 ELSE 0)
    IN  Spaces(left) \o text \o Spaces(marg - left)

\* d.get(k, default)
DictGetOr(d, k, default) == IF DictHas(d, k) THEN DictGet(d, k) ELSE default

\* sorted(all_modules)
RECURSIVE SortedNames(_)
SortedNames(S) ==
    IF S = {} THEN <<>>
    ELSE LET least == CHOOSE x \in S : \A y \in S \ {x} : StrLess(x, y)
         IN  <<least>> \o SortedNames(S \ {least})

\* ValueError: max() arg is an empty sequence
MaxOfEmpty == [kind |-> "ValueError"]

\* the files of the deployment the compare run reads
topE == <<"/", "e">>
topQ == <<"/", "q">>
topN == <<"/", "n">>

\* /a/configure/RELEASE gives A = /p and B = 1-2, /b/configure/RELEASE gives
\* C = /p, A = 1-2 and B = 1-2, /e/configure/RELEASE gives nothing and so does
\* /c/configure/RELEASE, whose B refers to an A it does not define;
\* /d/configure/RELEASE defines A twice, as /p/1-2 and then as /q; /q has no
\* RELEASE file and /n does not exist.  The redirector has a link for mc only.
topC == <<"/", "c">>
topD == <<"/", "d">>

FileAt(path) ==
    CASE path = ReleaseFile(topA) ->
             << Line(nA, dirP), Line(nB, Ref(nA) \o <<"/">> \o s12) >>
      [] path = ReleaseFile(topB) ->
             << Line(nC, dirP), Line(nA, Ref(nC) \o <<"/">> \o s12), Line(nB, Ref(nA)) >>
      [] path = ReleaseFile(topC) ->
             << Line(nB, Ref(nA) \o <<"/">> \o s12) >>
      [] path = ReleaseFile(topD) ->
             << Line(nA, dirP12), Line(nA, topQ) >>
      [] OTHER -> <<>>

\* /e/bin/mc, where the redirector link of mc leads
realE == AbsOf(<< <<"e">>, sBin, sMc >>)

CompareFs ==
    Tree({ReleaseFile(topA), ReleaseFile(topB), ReleaseFile(topC), ReleaseFile(topD),
          ReleaseFile(topE), realE, topQ,
          OsPathJoin(dirP, sLib), OsPathJoin(dirP12, sLib)})

CompareLinks == << Symlink(linkMc, realE) >>

Request(target, version) == target \o <<":">> \o version

\* the requests of the compare runs
CompareRequests ==
    { Request(sAg, topA),                                     \* ag:/a
      Request(<<"+">> \o sAg, topB),                          \* +ag:/b
      sMc,                                                    \* mc
      Request(<<"+">> \o sMc, topA),                          \* +mc:/a
      Request(sAg \o <<"(", "2", ")">>, topB),                \* ag(2):/b
      Request(sAg, topC),                                     \* ag:/c
      Request(sMc, topD),                                     \* mc:/d
      Request(sAg, topQ),                                     \* ag:/q
      Request(sMc, topN) }                                    \* mc:/n

CompareArgLists == UNION { [1..n -> CompareRequests] : n \in MinArgs..MaxArgs }

\* lines 197-207: the decoder and the empty tables
MainInit ==
    /\ mainPc = "decode"
    /\ iocIdx = 1
    /\ ioc_info = <<>>
    /\ widest = <<>>
    /\ all_modules = {}
    /\ std_index = 0
    /\ printed = <<>>
    /\ mainRaised = NoError

MainIdle ==
    /\ mainPc = "idle"
    /\ iocIdx = 1
    /\ ioc_info = <<>>
    /\ widest = <<>>
    /\ all_modules = {}
    /\ std_index = 0
    /\ printed = <<>>
    /\ mainRaised = NoError

\* print(e); sys.exit(-1)
ErrorLine(e) == [kind |-> "error", e |-> e]

\* lines 199-203: the list of the decoded entities, or the error printed
main_decoded ==
    /\ mainPc = "decode"
    /\ decPc \in {"decoded", "raised"}
    /\ IF decPc = "decoded"
       THEN /\ mainPc' = "extract"
            /\ UNCHANGED printed
       ELSE /\ mainPc' = "exit"
            /\ printed' = Append(printed, ErrorLine(decRaised))
    /\ UNCHANGED <<iocIdx, ioc_info, widest, all_modules, std_index, mainRaised,
                   envVars, inVars, exVars, gdVars, verVars, decVars, iocVars, libVars>>

\* (mutant) the macro table of the call before is still there
main_extract_keep_table ==
    /\ mainPc = "extract"
    /\ iocIdx <= Len(ioc_details)
    /\ mainPc' = "extracting"
    /\ ioc_name' = ioc_details[iocIdx].target
    /\ top' = ioc_details[iocIdx].top
    /\ file' = FileAt(ReleaseFile(ioc_details[iocIdx].top))
    /\ exPc' = "call"
    /\ exIdx' = 1
    /\ release_info' = <<>>
    /\ exRaised' = NoError
    /\ UNCHANGED <<var_dict, iocIdx, ioc_info, widest, all_modules, std_index, printed,
                   mainRaised, envVars, gdVars, verVars, decVars, iocVars, libVars>>

\* line 211: mod_list = extract_support(env, ioc.target, ioc.top) is called, with
\* the empty table and list of lines 71-72
main_extract ==
    /\ mainPc = "extract"
    /\ iocIdx <= Len(ioc_details)
    /\ mainPc' = "extracting"
    /\ ioc_name' = ioc_details[iocIdx].target
    /\ top' = ioc_details[iocIdx].top
    /\ file' = FileAt(ReleaseFile(ioc_details[iocIdx].top))
    /\ exPc' = "call"
    /\ exIdx' = 1
    /\ var_dict' = <<>>
    /\ release_info' = <<>>
    /\ exRaised' = NoError
    /\ UNCHANGED <<iocIdx, ioc_info, widest, all_modules, std_index, printed, mainRaised,
                   envVars, gdVars, verVars, decVars, iocVars, libVars>>

\* line 215: max(len(version), widest[ioc.unique_id])
Width(width, version) == Max(Len(version), width)

\* lines 213-217: the for loop over mod_list, from its i-th record
RECURSIVE Collect(_, _, _)
Collect(mod_list, i, acc) ==
    IF i > Len(mod_list) THEN acc
    ELSE LET mod     == mod_list[i]
             version == mod_version(mod)
         IN  Collect(mod_list, i + 1,
                     [width |-> Width(acc.width, version),
                      dct   |-> DictSet(acc.dct, mod.var, version),
                      mods  |-> acc.mods \cup {mod.var}])

\* the key of ioc_info and widest, lines 212-218
InfoKey(ioc) == ioc.unique_id

\* lines 210-218: the tables after extract_support has returned
main_collect ==
    /\ mainPc = "extracting"
    /\ exPc = "returned"
    /\ LET ioc == ioc_details[iocIdx]
           acc == Collect(release_info, 1,
                          [width |-> Len(ioc.unique_id), dct |-> <<>>, mods |-> all_modules])
       IN  /\ widest' = DictSet(widest, InfoKey(ioc), acc.width)
           /\ ioc_info' = DictSet(ioc_info, InfoKey(ioc), acc.dct)
           /\ all_modules' = acc.mods
    /\ iocIdx' = iocIdx + 1
    /\ mainPc' = "extract"
    /\ UNCHANGED <<std_index, printed, mainRaised,
                   envVars, inVars, exVars, gdVars, verVars, decVars, iocVars, libVars>>

\* (mutant) the IOError is swallowed and the entity is kept without dependencies
main_extract_ignored ==
    /\ mainPc = "extracting"
    /\ exPc = "raised"
    /\ widest' = DictSet(widest, ioc_details[iocIdx].unique_id,
                         Len(ioc_details[iocIdx].unique_id))
    /\ ioc_info' = DictSet(ioc_info, ioc_details[iocIdx].unique_id, <<>>)
    /\ iocIdx' = iocIdx + 1
    /\ mainPc' = "extract"
    /\ UNCHANGED <<all_modules, std_index, printed, mainRaised,
                   envVars, inVars, exVars, gdVars, verVars, decVars, iocVars, libVars>>

\* lines 219-221: the IOError of extract_support is printed and the run ends
main_extract_failed ==
    /\ mainPc = "extracting"
    /\ exPc = "raised"
    /\ printed' = Append(printed, ErrorLine(exRaised))
    /\ mainPc' = "exit"
    /\ UNCHANGED <<iocIdx, ioc_info, widest, all_modules, std_index, mainRaised,
                   envVars, inVars, exVars, gdVars, verVars, decVars, iocVars, libVars>>

\* line 223: the for loop is over and print_report is called
main_report ==
    /\ mainPc = "extract"
    /\ iocIdx > Len(ioc_details)
    /\ mainPc' = "report"
    /\ UNCHANGED <<iocIdx, ioc_info, widest, all_modules, std_index, printed, mainRaised,
                   envVars, inVars, exVars, gdVars, verVars, decVars, iocVars, libVars>>

\* (mutant) the last entity marked is the standard
StdIndexLast(details) ==
    IF \E k \in 1..Len(details) : details[k].golden
    THEN CHOOSE k \in 1..Len(details) :
            details[k].golden /\ \A j \in (k + 1)..Len(details) : ~details[j].golden
    ELSE 0

\* lines 149-152: golden_bits.index(True) when any(golden_bits)
StdIndex(details) ==
    IF \E k \in 1..Len(details) : details[k].golden
    THEN CHOOSE k \in 1..Len(details) :
            details[k].golden /\ \A j \in 1..(k - 1) : ~details[j].golden
    ELSE 0

\* lines 153-157
IocNames(details) == [k \in 1..Len(details) |-> details[k].unique_id]

PrintableNames(details) ==
    [k \in 1..Len(details) |->
        [text  |-> Center(details[k].unique_id, DictGet(widest, details[k].unique_id)),
         color |-> IF details[k].golden THEN BRIGHT_YELLOW ELSE NoColor]]

\* lines 149-162: the header line, or the ValueError of max() over no names.
\* (log prints nothing: the run is not verbose.)
report_header ==
    /\ mainPc = "report"
    /\ std_index' = StdIndex(ioc_details)
    /\ IF all_modules = {}
       THEN /\ mainPc' = "crashed"
            /\ mainRaised' = MaxOfEmpty
            /\ UNCHANGED printed
       ELSE LET widest_module ==
                    CHOOSE n \in { Len(m) : m \in all_modules } :
                        \A m \in all_modules : Len(m) <= n
            IN  /\ printed' = Append(printed,
                                     [kind  |-> "header",
                                      label |-> Spaces(widest_module),
                                      cells |-> PrintableNames(ioc_details)])
                /\ mainPc' = "rows"
                /\ UNCHANGED mainRaised
    /\ UNCHANGED <<iocIdx, ioc_info, widest, all_modules,
                   envVars, inVars, exVars, gdVars, verVars, decVars, iocVars, libVars>>

\* line 164
RawElements(mod) ==
    [k \in 1..Len(ioc_details) |->
        DictGetOr(DictGet(ioc_info, ioc_details[k].unique_id), mod, Placeholder)]

\* (mutant) the placeholders are left out of the comparison
DiffValuesOnly(raw_elements) ==
    Cardinality({ raw_elements[k] : k \in 1..Len(raw_elements) } \ {Placeholder}) > 1

\* line 166: len(set(raw_elements)) != 1
Diff(raw_elements) ==
    Cardinality({ raw_elements[k] : k \in 1..Len(raw_elements) }) # 1

\* (mutant) every cell of a differing row is coloured
CellRedAlways(raw, std) == TRUE

\* lines 170-171: the cell of a differing row is coloured unless raw == std
CellRed(raw, std) == raw # std

\* lines 164-177: the line of one variable
RowLine(mod) ==
    LET raw_elements  == RawElements(mod)
        widest_module == CHOOSE n \in { Len(m) : m \in all_modules } :
                            \A m \in all_modules : Len(m) <= n
        diff          == Diff(raw_elements)
        std           == IF std_index # 0 THEN raw_elements[std_index] ELSE None
    IN  [kind  |-> "row",
         mod   |-> mod,
         label |-> PadRight(mod, widest_module),
         color |-> IF diff THEN BRIGHT_RED ELSE NoColor,
         cells |-> [k \in 1..Len(raw_elements) |->
                      [raw   |-> raw_elements[k],
                       text  |-> PadRight(raw_elements[k],
                                          DictGet(widest, ioc_details[k].unique_id)),
                       color |-> IF diff /\ CellRed(raw_elements[k], std)
                                 THEN BRIGHT_RED ELSE NoColor]]]

\* the rows printed so far
RowsPrinted == Len(SelectSeq(printed, LAMBDA l : l.kind = "row"))

\* one pass of the for loop of line 163
report_row ==
    /\ mainPc = "rows"
    /\ RowsPrinted < Cardinality(all_modules)
    /\ printed' = Append(printed, RowLine(SortedNames(all_modules)[RowsPrinted + 1]))
    /\ UNCHANGED <<mainPc, iocIdx, ioc_info, widest, all_modules, std_index, mainRaised,
                   envVars, inVars, exVars, gdVars, verVars, decVars, iocVars, libVars>>

\* print_report returns and the run ends
report_done ==
    /\ mainPc = "rows"
    /\ RowsPrinted = Cardinality(all_modules)
    /\ mainPc' = "done"
    /\ UNCHANGED <<iocIdx, ioc_info, widest, all_modules, std_index, printed, mainRaised,
                   envVars, inVars, exVars, gdVars, verVars, decVars, iocVars, libVars>>

print_report == report_header \/ report_row \/ report_done

main == main_decoded \/ main_extract \/ main_collect \/ main_extract_failed \/ main_report

\* the compare run: the filesystem, the requests, and the file tools not yet called
CompareInit ==
    /\ fs = CompareFs
    /\ links = CompareLinks
    /\ args \in CompareArgLists
    /\ argIdx = 1
    /\ decPc = "call"
    /\ decPath = <<>>
    /\ decLast = Unbound
    /\ seen = <<>>
    /\ ioc_details = <<>>
    /\ decRaised = NoError
    /\ MainInit

(***************************************************************************)
(* versions.py: IOC                                                        *)
(***************************************************************************)

MATURITY_LIST == <<MATURITY_PROD, MATURITY_WORK, MATURITY_TEST>>

\* reading lst[i] where the list has no such element raises IndexError
IndexError == <<"IndexError">>

\* lst[i], counted from 0
At(lst, i) == IF i + 1 \in 1..Len(lst) THEN lst[i + 1] ELSE IndexError

\* (mutant) a link too short for a release is of maturity 'test'
MaturityOfFullLink(lst) ==
    LET maturity == IF Len(lst) > 7 THEN At(lst, 2) ELSE MATURITY_TEST
    IN  IF InList(maturity, MATURITY_LIST) THEN maturity ELSE MATURITY_TEST

\* lines 658-660
MaturityOf(lst) ==
    LET maturity == IF Len(lst) > 2 THEN At(lst, 2) ELSE MATURITY_TEST
    IN  IF InList(maturity, MATURITY_LIST) THEN maturity ELSE MATURITY_TEST

\* (mutant) the version is read whatever the maturity
VersionOfAnyMaturity(lst, maturity) == IF Len(lst) > 7 THEN At(lst, 7) ELSE <<>>

\* line 665: lst[7] if len(lst) > 7 and maturity == MATURITY_PROD else ''
VersionOf(lst, maturity) ==
    IF Len(lst) > 7 /\ maturity = MATURITY_PROD THEN At(lst, 7) ELSE <<>>

\* lines 657-674: the attributes read from the segments of the link
_split_ioc_link(l) ==
    LET lst      == StrSplit(l, "/")
        maturity == MaturityOf(lst)
        known    == maturity # MATURITY_TEST
    IN  [maturity    |-> maturity,
         epics       |-> IF known /\ Len(lst) > 3 THEN At(lst, 3) ELSE <<>>,
         site        |-> IF known /\ Len(lst) > 6 THEN At(lst, 6) ELSE <<>>,
         target_name |-> IF known /\ Len(lst) > 5 THEN At(lst, 5) ELSE <<>>,
         version     |-> IF known THEN VersionOf(lst, maturity) ELSE <<>>,
         bsp         |-> IF Len(lst) > 1 THEN FromEnd(lst, 2) ELSE <<>>,
         boot        |-> IF Len(lst) > 0 THEN FromEnd(lst, 1) ELSE <<>>]

\* the attributes of IOC.__init__, lines 606-608
NoAttributes ==
    [maturity |-> <<>>, epics |-> <<>>, site |-> <<>>, target_name |-> <<>>,
     version |-> <<>>, bsp |-> <<>>, boot |-> <<>>]

\* IOC(ioc_name)
ioc_init ==
    /\ iocPc = "call"
    /\ iocAttrs' = NoAttributes
    /\ iocPc' = "constructed"
    /\ UNCHANGED <<ioc_link, otherThanIoc>>

\* set_attributes_from_link(ioc_link), lines 621-624
set_attributes_from_link ==
    /\ iocPc = "constructed"
    /\ LET t == _split_ioc_link(ioc_link)
       IN  IF IndexError \in { t.maturity, t.epics, t.site, t.target_name, t.version,
                               t.bsp, t.boot }
           THEN /\ iocPc' = "raised"
                /\ UNCHANGED iocAttrs
           ELSE /\ iocPc' = "set"
                /\ iocAttrs' = t
    /\ UNCHANGED <<ioc_link, otherThanIoc>>

IOC == ioc_init \/ set_attributes_from_link

\* the segments of the links: /gem_sw/<maturity>/R3/ioc/mcs/cp/1-8/bin/RT/b, and
\* the same without the release
sGemSw == <<"g", "e", "m", "_", "s", "w">>
sR3 == <<"R", "3">>
sMcs == <<"m", "c", "s">>
sCp == <<"c", "p">>
s18 == <<"1", "-", "8">>
sRT == <<"R", "T">>
sBoot == <<"b">>

Maturities == { MATURITY_PROD, MATURITY_WORK, MATURITY_TEST, <<"d", "e", "v">> }

LinkSegments ==
    { << <<>>, sGemSw, m, sR3, sIoc, sMcs, sCp >> \o mid \o << sBin, sRT, sBoot >> :
        m \in Maturities, mid \in { <<>>, << s18 >> } }

\* a link with the segment k left empty (k = 0: none)
Blanked(segs, k) == [i \in 1..Len(segs) |-> IF i = k THEN <<>> ELSE segs[i]]

\* the links: the first n segments of a conventional link, absolute or relative,
\* one of the segments possibly empty
IocLinks ==
    UNION { { SlashJoin(Blanked(SubSeq(segs, from, n), k)) :
                from \in 1..2, n \in 1..Len(segs), k \in 0..Len(segs) } :
            segs \in LinkSegments }

IocInit ==
    /\ ioc_link \in IocLinks
    /\ iocPc = "call"
    /\ iocAttrs = NoAttributes

IocIdle ==
    /\ ioc_link = <<>>
    /\ iocPc = "idle"
    /\ iocAttrs = NoAttributes

(***************************************************************************)
(* versions.py: the catalog listings                                       *)
(***************************************************************************)
\* a listing that does not look before it lists
IsdirUnchecked(path) == TRUE

\* os.path.isdir: the path, links followed, exists and is no regular file
isdir(path) == OsPathRealpath(path) \in fs /\ OsPathRealpath(path) \notin files

OSError == <<"OSError">>

\* the names os.listdir finds in a directory
Entries(directory) ==
    { SubSeq(p, Len(directory) + 2, Len(p)) :
        p \in { q \in fs : /\ Len(q) > Len(directory) + 1
                           /\ SubSeq(q, 1, Len(directory)) = directory
                           /\ q[Len(directory) + 1] = "/"
                           /\ \A k \in (Len(directory) + 2)..Len(q) : q[k] # "/" } }

\* the orders a set of names can be listed in
Orderings(S) ==
    { s \in [1..Cardinality(S) -> S] : \A i, j \in 1..Cardinality(S) : s[i] = s[j] => i = j }

\* os.listdir: the names in arbitrary order; OSError when there is no such directory
listdir(directory) ==
    IF OsPathRealpath(directory) \in fs \ files
    THEN Orderings(Entries(OsPathRealpath(directory)))
    ELSE {OSError}

\* sorted(listdir(directory))
SortedListdir(lst) == SortSeq(lst, StrLess)

\* Config.maturity_directory with Config.prod_dir, work_dir and test_dir
maturity_directory(maturity) ==
    IF maturity = MATURITY_PROD THEN OsPathJoin(ROOT, MATURITY_PROD)
    ELSE IF maturity = MATURITY_WORK THEN OsPathJoin(ROOT, MATURITY_WORK)
    ELSE OsPathJoin(ROOT, MATURITY_TEST)

sSupport == <<"s", "u", "p", "p", "o", "r", "t">>

\* the directory each listing looks into (lines 198, 293, 313, 332, 353)
CatalogDirectory(call) ==
    CASE call.fn = "get_epics_versions" -> maturity_directory(call.maturity)
      [] call.fn = "get_ioc_list" ->
             OsPathJoinAll(<<maturity_directory(call.maturity), call.epics, sIoc>>)
      [] call.fn = "get_ioc_versions" ->
             OsPathJoinAll(<<maturity_directory(MATURITY_PROD), call.epics, sIoc,
                             call.name, call.site>>)
      [] call.fn = "get_support_module_list" ->
             OsPathJoinAll(<<maturity_directory(call.maturity), call.epics, sSupport>>)
      [] call.fn = "get_support_module_versions" ->
             OsPathJoinAll(<<maturity_directory(MATURITY_PROD), call.epics, sSupport,
                             call.name>>)

\* [f for f in lst if re.search('^R', f) and isdir(join(directory, f))]
RECURSIVE EpicsOnly(_, _)
EpicsOnly(directory, lst) ==
    IF lst = <<>> THEN <<>>
    ELSE (IF Head(lst) # <<>> /\ Head(lst)[1] = "R" /\ isdir(OsPathJoin(directory, Head(lst)))
          THEN <<Head(lst)>> ELSE <<>>) \o EpicsOnly(directory, Tail(lst))

\* the end of a listing: the list returned, or the error of listdir
Listed(lst, result) ==
    IF lst = OSError
    THEN catPc' = "raised" /\ catResult' = OSError
    ELSE catPc' = "returned" /\ catResult' = result

\* lines 189-202
get_epics_versions ==
    /\ catPc = "call"
    /\ catCall.fn = "get_epics_versions"
    /\ LET directory == CatalogDirectory(catCall)
       IN  IF isdir(directory)
           THEN \E lst \in listdir(directory) : Listed(lst, EpicsOnly(directory, lst))
           ELSE catPc' = "returned" /\ catResult' = <<>>
    /\ UNCHANGED <<files, catCall, otherThanCat>>

\* if isdir(directory): return sorted(listdir(directory)) else: return []
SortedListing ==
    /\ catPc = "call"
    /\ LET directory == CatalogDirectory(catCall)
       IN  IF isdir(directory)
           THEN \E lst \in listdir(directory) : Listed(lst, SortedListdir(lst))
           ELSE catPc' = "returned" /\ catResult' = <<>>
    /\ UNCHANGED <<files, catCall, otherThanCat>>

\* lines 282-297
get_ioc_list == catCall.fn = "get_ioc_list" /\ SortedListing

\* lines 300-319
get_ioc_versions == catCall.fn = "get_ioc_versions" /\ SortedListing

\* lines 322-338
get_support_module_list == catCall.fn = "get_support_module_list" /\ SortedListing

\* lines 341-357
get_support_module_versions == catCall.fn = "get_support_module_versions" /\ SortedListing

Catalog ==
    \/ get_epics_versions
    \/ get_ioc_list
    \/ get_ioc_versions
    \/ get_support_module_list
    \/ get_support_module_versions

sR4 == <<"R", "4">>
sMk == <<"m", "k">>
sREADME == <<"R", "E", "A", "D", "M", "E">>

\* the deployment trees: the leaves, and which of the paths are regular files
CatalogTrees ==
    { [leaves |-> {}, files |-> {}],
      [leaves |-> { OsPathJoinAll(<<ROOT, sProd, sR3, sIoc, sMcs, sCp, s18>>),
                    OsPathJoinAll(<<ROOT, sProd, sR3, sIoc, sAg, sCp, s12>>),
                    OsPathJoinAll(<<ROOT, sProd, sR3, sSupport, <<"m">>, s12>>),
                    OsPathJoinAll(<<ROOT, sProd, sR3, sSupport, <<"m">>, s18>>),
                    OsPathJoinAll(<<ROOT, sProd, sR4, sSupport>>),
                    OsPathJoinAll(<<ROOT, sProd, sRedirector>>),
                    OsPathJoinAll(<<ROOT, sProd, sREADME>>),
                    OsPathJoinAll(<<ROOT, sWork, sR3, sSupport, <<"m">> >>),
                    OsPathJoinAll(<<ROOT, sWork, sR3, sIoc, sMcs>>) },
       files |-> { OsPathJoinAll(<<ROOT, sProd, sREADME>>) }],
      [leaves |-> { OsPathJoinAll(<<ROOT, sProd, sR3, sIoc>>),
                    OsPathJoinAll(<<ROOT, sProd, sR4, sSupport>>),
                    OsPathJoinAll(<<ROOT, sWork>>) },
       files |-> { OsPathJoinAll(<<ROOT, sProd, sR3, sIoc>>),
                   OsPathJoinAll(<<ROOT, sProd, sR4>>),
                   OsPathJoinAll(<<ROOT, sWork>>) }] }

\* the calls of the five listings
CatalogCalls ==
    [fn : {"get_epics_versions"}, maturity : {MATURITY_PROD, MATURITY_WORK, MATURITY_TEST},
     epics : {<<>>}, name : {<<>>}, site : {<<>>}]
    \cup [fn : {"get_ioc_list", "get_support_module_list"},
          maturity : {MATURITY_PROD, MATURITY_WORK, MATURITY_TEST},
          epics : {sR3, sR4}, name : {<<>>}, site : {<<>>}]
    \cup [fn : {"get_ioc_versions"}, maturity : {MATURITY_PROD},
          epics : {sR3, sR4}, name : {sMcs, sAg}, site : {sCp, sMk}]
    \cup [fn : {"get_support_module_versions"}, maturity : {MATURITY_PROD},
          epics : {sR3, sR4}, name : {<<"m">>, sMcs}, site : {<<>>}]

NoCall == [fn |-> "none"]

CatalogInit ==
    /\ \E t \in CatalogTrees : fs = Tree(t.leaves) /\ files = t.files
    /\ links = <<>>
    /\ catCall \in CatalogCalls
    /\ catPc = "call"
    /\ catResult = <<>>

CatalogIdle ==
    /\ files = {}
    /\ catCall = NoCall
    /\ catPc = "idle"
    /\ catResult = <<>>


(***************************************************************************)
(* gem-versions.py: print_active_support_module_dependencies               *)
(*                                                                         *)
(* The deployment is given by what Redirector.get_ioc_list and the RELEASE *)
(* files yield: the IOCs of the redirector, sorted by name, and for every  *)
(* IOC and support module the support modules get_dependencies finds.  A   *)
(* support module stands for its id: each has one version, release and     *)
(* maturity here.                                                          *)
(***************************************************************************)
\* skip_name, lines 76-96
skip_name(name, match_list) ==
    IF match_list # <<>>
    THEN ~\E i \in 1..Len(match_list) : Contains(name, match_list[i])
    ELSE FALSE

\* skip_exclude, lines 99-113
skip_exclude(name, excluded) ==
    \E i \in 1..Len(excluded) : Contains(name, excluded[i])

\* skip_epics, lines 116-134
skip_epics(epics_version, version_list) ==
    IF version_list # <<>>
    THEN ~\E i \in 1..Len(version_list) : Contains(epics_version, version_list[i])
    ELSE FALSE

\* what get_dependencies finds in the RELEASE file of an entity
DependenciesOf(entity) == DictGetOr(installed.deps, entity, <<>>)

\* IOC.get_ioc_dependencies: the support modules, sorted
get_ioc_dependencies(ioc) == SortSeq(DependenciesOf(ioc.name), StrLess)

\* SupportModule.get_support_module_dependencies: the support modules as found
get_support_module_dependencies(sup) == DependenciesOf(sup)

\* lines 223-231: the for loop over the dependencies of one IOC, from the i-th
RECURSIVE CrossReference(_, _, _, _)
CrossReference(ioc, sups, i, acc) ==
    IF i > Len(sups) THEN acc
    ELSE LET sup  == sups[i]
             seen2 == DictSet(acc.sup_dict, sup, sup)
         IN  IF skip_name(sup, support_name_list)
             THEN CrossReference(ioc, sups, i + 1, [acc EXCEPT !.sup_dict = seen2])
             ELSE CrossReference(ioc, sups, i + 1,
                      [sup_dict |-> seen2,
                       ioc_dict |-> IF DictHas(acc.ioc_dict, sup)
                                    THEN DictSet(acc.ioc_dict, sup,
                                                 Append(DictGet(acc.ioc_dict, sup), ioc.name))
                                    ELSE DictSet(acc.ioc_dict, sup, <<ioc.name>>)])

\* one iteration of the for loop of line 219
walk_ioc ==
    /\ walkPc = "iocs"
    /\ walkIdx <= Len(installed.iocs)
    /\ LET ioc == installed.iocs[walkIdx]
       IN  IF skip_exclude(ioc.name, exclude_list) \/ skip_epics(ioc.epics, epics_version_list)
           THEN UNCHANGED <<ioc_dict, sup_dict, walkReads>>
           ELSE LET acc == CrossReference(ioc, get_ioc_dependencies(ioc), 1,
                                          [sup_dict |-> sup_dict, ioc_dict |-> ioc_dict])
                IN  /\ ioc_dict' = acc.ioc_dict
                    /\ sup_dict' = acc.sup_dict
                    /\ walkReads' = Append(walkReads, ioc.name)
    /\ walkIdx' = walkIdx + 1
    /\ UNCHANGED <<walkPc, walkSups, walkOut, walkIn, otherThanWalk>>

\* lines 236-238: if ioc_dict: for sup_id in sorted(ioc_dict)
walk_sorted ==
    /\ walkPc = "iocs"
    /\ walkIdx > Len(installed.iocs)
    /\ walkPc' = IF ioc_dict # <<>> THEN "sups" ELSE "done"
    /\ walkSups' = SortedNames({ ioc_dict[i].name : i \in 1..Len(ioc_dict) })
    /\ walkIdx' = 1
    /\ UNCHANGED <<ioc_dict, sup_dict, walkReads, walkOut, walkIn, otherThanWalk>>

\* (mutant) the dependencies of every dependency are fetched as well
SupReadsDescend(sup) == <<sup>> \o get_support_module_dependencies(sup)

\* line 244: the entities whose dependencies one iteration fetches
SupReads(sup) == <<sup>>

WalkLine(kind, name) == [kind |-> kind, name |-> name]

\* one iteration of the for loop of line 238: the support module, its
\* dependencies and the IOCs that use it
walk_sup ==
    /\ walkPc = "sups"
    /\ walkIdx <= Len(walkSups)
    /\ LET sup  == DictGet(sup_dict, walkSups[walkIdx])
           deps == get_support_module_dependencies(sup)
           iocs == DictGet(ioc_dict, walkSups[walkIdx])
       IN  /\ walkReads' = walkReads \o SupReads(sup)
           /\ walkOut' = walkOut \o <<WalkLine("sup", sup)>>
                           \o [i \in 1..Len(deps) |-> WalkLine("dep", deps[i])]
                           \o [i \in 1..Len(iocs) |-> WalkLine("ioc", iocs[i])]
                           \o <<WalkLine("blank", <<>>)>>
    /\ walkIdx' = walkIdx + 1
    /\ UNCHANGED <<walkPc, walkSups, ioc_dict, sup_dict, walkIn, otherThanWalk>>

\* the for loop of line 238 is over
walk_done ==
    /\ walkPc = "sups"
    /\ walkIdx > Len(walkSups)
    /\ walkPc' = "done"
    /\ UNCHANGED <<walkIdx, walkSups, ioc_dict, sup_dict, walkReads, walkOut, walkIn,
                   otherThanWalk>>

print_active_support_module_dependencies ==
    walk_ioc \/ walk_sorted \/ walk_sup \/ walk_done

Ioc(name, epics) == [name |-> name, epics |-> epics]
Deps(name, sups) == [name |-> name, sub |-> sups]

\* the deployments: mc and ag use A and B, which depend on each other; mc uses A,
\* the head of the chain A, B, C; no IOC; mc uses A twice, and A depends on itself
Deployments ==
    { [iocs |-> <<Ioc(sAg, sR4), Ioc(sMc, sR3)>>,
       deps |-> <<Deps(sAg, <<nB, nA>>), Deps(sMc, <<nA>>),
                  Deps(nA, <<nB>>), Deps(nB, <<nA>>)>>],
      [iocs |-> <<Ioc(sMc, sR3)>>,
       deps |-> <<Deps(sMc, <<nA>>), Deps(nA, <<nB>>), Deps(nB, <<nC>>),
                  Deps(nC, <<nA>>)>>],
      [iocs |-> <<>>, deps |-> <<Deps(nA, <<nB>>)>>],
      [iocs |-> <<Ioc(sAg, sR3), Ioc(sMc, sR3)>>,
       deps |-> <<Deps(sMc, <<nA, nA>>), Deps(nA, <<nA, nC>>), Deps(nC, <<nA>>)>>] }

WalkInit ==
    /\ installed \in Deployments
    /\ support_name_list \in {<<>>, <<nA>>, <<nB, nC>>}
    /\ exclude_list \in {<<>>, <<sAg>>}
    /\ epics_version_list \in {<<>>, <<sR3>>}
    /\ walkPc = "iocs"
    /\ walkIdx = 1
    /\ walkSups = <<>>
    /\ ioc_dict = <<>>
    /\ sup_dict = <<>>
    /\ walkReads = <<>>
    /\ walkOut = <<>>

WalkIdle ==
    /\ installed = [iocs |-> <<>>, deps |-> <<>>]
    /\ support_name_list = <<>>
    /\ exclude_list = <<>>
    /\ epics_version_list = <<>>
    /\ walkPc = "idle"
    /\ walkIdx = 1
    /\ walkSups = <<>>
    /\ ioc_dict = <<>>
    /\ sup_dict = <<>>
    /\ walkReads = <<>>
    /\ walkOut = <<>>


(***************************************************************************)
(* gem-versions.py and gem-prod-versions.py: print_what_depends_report      *)
(*                                                                         *)
(* The production area is given by what the catalog listings and the       *)
(* RELEASE files yield for each EPICS version: the support modules with    *)
(* their versions, the IOC targets with their instances (site and version, *)
(* in the order of the loops), and the names of everyone's dependencies.   *)
(***************************************************************************)
KeyError == [kind |-> "KeyError"]

\* lines 538-543: the for loop over dep_names of a support module, from the i-th
RECURSIVE SupportNames(_, _, _, _)
SupportNames(support_name, dep_names, i, acc) ==
    IF i > Len(dep_names) THEN acc
    ELSE IF InList(dep_names[i], requested)
         THEN SupportNames(support_name, dep_names, i + 1,
                  [dict |-> DictSet(acc.dict, support_name,
                                    DictGetOr(acc.dict, support_name, {}) \cup {dep_names[i]}),
                   len_max |-> Max(acc.len_max, Len(support_name))])
         ELSE SupportNames(support_name, dep_names, i + 1, acc)

\* lines 534-543: the for loop over the versions of a support module
RECURSIVE SupportVersions(_, _, _, _)
SupportVersions(support_name, versions, i, acc) ==
    IF i > Len(versions) THEN acc
    ELSE SupportVersions(support_name, versions, i + 1,
                         SupportNames(support_name, versions[i].deps, 1, acc))

\* line 558: if ioc_target_name not in support_dict
NewTarget(ioc_target_name, supports, iocs) == ~DictHas(supports, ioc_target_name)

\* lines 556-561: the for loop over dep_names of an IOC, from the i-th; raised
\* is KeyError once ioc_dict[ioc_target_name] is read and is not there
RECURSIVE IocNamesOf(_, _, _, _)
IocNamesOf(ioc_target_name, dep_names, i, acc) ==
    IF i > Len(dep_names) \/ acc.raised # NoError THEN acc
    ELSE IF InList(dep_names[i], requested)
         THEN LET started == IF NewTarget(ioc_target_name, support_dict, acc.dict)
                             THEN DictSet(acc.dict, ioc_target_name, {})
                             ELSE acc.dict
              IN  IF DictHas(started, ioc_target_name)
                  THEN IocNamesOf(ioc_target_name, dep_names, i + 1,
                           [dict |-> DictSet(started, ioc_target_name,
                                             DictGet(started, ioc_target_name)
                                                 \cup {dep_names[i]}),
                            len_max |-> Max(acc.len_max, Len(ioc_target_name)),
                            raised |-> NoError])
                  ELSE [acc EXCEPT !.raised = KeyError]
         ELSE IocNamesOf(ioc_target_name, dep_names, i + 1, acc)

\* lines 547-561: the for loops over the sites and versions of an IOC target
RECURSIVE IocInstances(_, _, _, _)
IocInstances(ioc_target_name, instances, i, acc) ==
    IF i > Len(instances) \/ acc.raised # NoError THEN acc
    ELSE IocInstances(ioc_target_name, instances, i + 1,
                      IocNamesOf(ioc_target_name, instances[i].deps, 1, acc))

\* the EPICS version the for loop of line 527 is at
Production == production[whatEpics]

\* one iteration of the for loop of line 530
what_support ==
    /\ whatPc = "support"
    /\ whatIdx <= Len(Production.supports)
    /\ LET sup == Production.supports[whatIdx]
           acc == SupportVersions(sup.name, sup.versions, 1,
                                  [dict |-> support_dict, len_max |-> len_max])
       IN  /\ support_dict' = acc.dict
           /\ len_max' = acc.len_max
    /\ whatIdx' = whatIdx + 1
    /\ UNCHANGED <<whatPc, whatEpics, what_ioc_dict, whatOut, whatRaised, whatIn,
                   otherThanWhat>>

\* line 547: ioc_name_list = get_ioc_list(epics_version, MATURITY_PROD)
what_ioc_list ==
    /\ whatPc = "support"
    /\ whatIdx > Len(Production.supports)
    /\ whatPc' = "ioc"
    /\ whatIdx' = 1
    /\ UNCHANGED <<whatEpics, support_dict, what_ioc_dict, len_max, whatOut, whatRaised,
                   whatIn, otherThanWhat>>

\* one iteration of the for loop of line 548
what_ioc ==
    /\ whatPc = "ioc"
    /\ whatIdx <= Len(Production.iocs)
    /\ LET ioc == Production.iocs[whatIdx]
           acc == IocInstances(ioc.target, ioc.instances, 1,
                               [dict |-> what_ioc_dict, len_max |-> len_max,
                                raised |-> NoError])
       IN  IF acc.raised # NoError
           THEN /\ whatPc' = "crashed"
                /\ whatRaised' = acc.raised
                /\ UNCHANGED <<whatIdx, what_ioc_dict, len_max>>
           ELSE /\ what_ioc_dict' = acc.dict
                /\ len_max' = acc.len_max
                /\ whatIdx' = whatIdx + 1
                /\ UNCHANGED <<whatPc, whatRaised>>
    /\ UNCHANGED <<whatEpics, support_dict, whatOut, whatIn, otherThanWhat>>

WhatLine(epics, kind, item, names) ==
    [epics |-> epics, kind |-> kind, item |-> item, names |-> names]

\* the lines of a table, sorted by key
WhatLines(epics, kind, dict) ==
    LET keys == SortedNames({ dict[i].name : i \in 1..Len(dict) })
    IN  [i \in 1..Len(keys) |-> WhatLine(epics, kind, keys[i], DictGet(dict, keys[i]))]

\* lines 564-572: the report of the EPICS version, and the next version
what_format ==
    /\ whatPc = "ioc"
    /\ whatIdx > Len(Production.iocs)
    /\ whatOut' = whatOut \o <<WhatLine(Production.epics, "epics", <<>>, {})>>
                    \o WhatLines(Production.epics, "support", support_dict)
                    \o WhatLines(Production.epics, "ioc", what_ioc_dict)
    /\ IF whatEpics < Len(production)
       THEN whatEpics' = whatEpics + 1 /\ whatPc' = "support"
       ELSE whatEpics' = whatEpics /\ whatPc' = "done"
    /\ whatIdx' = 1
    /\ UNCHANGED <<support_dict, what_ioc_dict, len_max, whatRaised, whatIn, otherThanWhat>>

print_what_depends_report == what_support \/ what_ioc_list \/ what_ioc \/ what_format

Instance(site, version, deps) == [site |-> site, version |-> version, deps |-> deps]
Version(version, deps) == [version |-> version, deps |-> deps]

\* the production areas: one IOC whose instance depends on A and B; two instances
\* of one IOC, and support modules that depend on each other; an IOC target
\* named as the support module B; two EPICS versions
Productions ==
    { << [epics |-> sR3,
          supports |-> <<[name |-> nA, versions |-> <<Version(s12, <<>>)>>]>>,
          iocs |-> <<[target |-> sMcs,
                      instances |-> <<Instance(sCp, s18, <<nA, nB>>)>>]>>] >>,
      << [epics |-> sR3,
          supports |-> <<[name |-> nA, versions |-> <<Version(s12, <<nB>>),
                                                     Version(s18, <<nB, nC>>)>>],
                         [name |-> nB, versions |-> <<Version(s12, <<nA>>)>>]>>,
          iocs |-> <<[target |-> sAg,
                      instances |-> <<Instance(sCp, s12, <<nA>>),
                                      Instance(sMk, s12, <<nC>>)>>],
                     [target |-> sMcs,
                      instances |-> <<Instance(sCp, s18, <<nC>>)>>]>>] >>,
      << [epics |-> sR3,
          supports |-> <<[name |-> nB, versions |-> <<Version(s12, <<nA>>)>>]>>,
          iocs |-> <<[target |-> nB,
                      instances |-> <<Instance(sCp, s12, <<nA>>)>>]>>] >>,
      << [epics |-> sR4,
          supports |-> <<>>,
          iocs |-> <<[target |-> sMcs,
                      instances |-> <<Instance(sCp, s18, <<nA>>)>>]>>],
         [epics |-> sR3,
          supports |-> <<[name |-> nC, versions |-> <<Version(s12, <<nB>>)>>]>>,
          iocs |-> <<[target |-> sAg,
                      instances |-> <<Instance(sMk, s12, <<nB>>)>>]>>] >> }

WhatInit ==
    /\ production \in Productions
    /\ requested \in {<<>>, <<nA>>, <<nB>>, <<nC>>, <<nA, nB>>, <<nA, nB, nC>>}
    /\ whatPc = "support"
    /\ whatEpics = 1
    /\ whatIdx = 1
    /\ support_dict = <<>>
    /\ what_ioc_dict = <<>>
    /\ len_max = 0
    /\ whatOut = <<>>
    /\ whatRaised = NoError

WhatIdle ==
    /\ production = <<>>
    /\ requested = <<>>
    /\ whatPc = "idle"
    /\ whatEpics = 1
    /\ whatIdx = 1
    /\ support_dict = <<>>
    /\ what_ioc_dict = <<>>
    /\ len_max = 0
    /\ whatOut = <<>>
    /\ whatRaised = NoError

LibIdle == CatalogIdle /\ WalkIdle /\ WhatIdle

(***************************************************************************)
(* Specifications                                                          *)
(***************************************************************************)

\* extract_support, then get_dependencies, on one RELEASE file
Init == FileInit /\ VersionIdle /\ DecodeIdle /\ MainIdle /\ IocIdle /\ LibIdle

Next == extract_support \/ get_dependencies

Spec == Init /\ [][Next]_vars

\* the version reported for one expanded path
InitVersion ==
    /\ VersionInit /\ FileIdle /\ DecodeIdle /\ MainIdle /\ IocIdle /\ LibIdle
    /\ fs = {} /\ links = <<>>

NextVersion == version_extract \/ version_report

SpecVersion == InitVersion /\ [][NextVersion]_vars

\* IocDecoder.decode mapped over the requests of one run
InitDecode == DecodeInit /\ FileIdle /\ VersionIdle /\ MainIdle /\ IocIdle /\ LibIdle

NextDecode == IocDecoder

SpecDecode == InitDecode /\ [][NextDecode]_vars

\* one run of gem-compare-modules.py
InitCompare == CompareInit /\ FileIdle /\ VersionIdle /\ IocIdle /\ LibIdle

NextCompare == IocDecoder \/ main \/ extract_support \/ print_report

SpecCompare == InitCompare /\ [][NextCompare]_vars

\* one IOC object filled from a redirector link
InitIoc ==
    /\ IocInit /\ FileIdle /\ VersionIdle /\ DecodeIdle /\ MainIdle /\ LibIdle
    /\ fs = {} /\ links = <<>>

NextIoc == IOC

SpecIoc == InitIoc /\ [][NextIoc]_vars

\* one catalog listing over one deployment tree
InitCatalog ==
    /\ CatalogInit /\ FileIdle /\ VersionIdle /\ DecodeIdle /\ MainIdle /\ IocIdle
    /\ WalkIdle /\ WhatIdle

NextCatalog == Catalog

SpecCatalog == InitCatalog /\ [][NextCatalog]_vars

\* one run of print_active_support_module_dependencies; the program keeps running
\* until it ends
InitWalk ==
    /\ WalkInit /\ FileIdle /\ VersionIdle /\ DecodeIdle /\ MainIdle /\ IocIdle
    /\ CatalogIdle /\ WhatIdle
    /\ fs = {} /\ links = <<>>

NextWalk == print_active_support_module_dependencies

SpecWalk == InitWalk /\ [][NextWalk]_vars /\ WF_vars(NextWalk)

\* one run of print_what_depends_report
InitWhat ==
    /\ WhatInit /\ FileIdle /\ VersionIdle /\ DecodeIdle /\ MainIdle /\ IocIdle
    /\ CatalogIdle /\ WalkIdle
    /\ fs = {} /\ links = <<>>

NextWhat == print_what_depends_report

SpecWhat == InitWhat /\ [][NextWhat]_vars

(***************************************************************************)
(* The lines of the file as each tool reads them                           *)
(***************************************************************************)

\* extract_support: line i gives a name and a value
ExWell(i) == CleanLine(file[i]) # <<>> /\ Unpacks(CleanLine(file[i]))
ExName(i) == Fields(CleanLine(file[i]))[1]
ExValue(i) == Fields(CleanLine(file[i]))[2]
\* the lines extract_support has processed
ExDone == 1..(exIdx - 1)
\* no processed line after i defines the name of line i again
ExLast(i) == \A j \in ExDone : (j > i /\ ExWell(j)) => ExName(j) # ExName(i)
\* the names defined before line i
ExEarlier(i) == { ExName(j) : j \in { k \in 1..(i - 1) : ExWell(k) } }

\* get_dependencies: line i gives a name and a value
GdWell(i) ==
    LET l == StrStrip(file[i])
    IN  /\ ~(l # <<>> /\ l[1] = "#")
        /\ Len(StrSplit(l, "=")) = 2
GdName(i) == StrStrip(StrSplit(StrStrip(file[i]), "=")[1])
GdValue(i) == StrStrip(StrSplit(StrStrip(file[i]), "=")[2])
GdDone == 1..(gdIdx - 1)
GdLast(i) == \A j \in GdDone : (j > i /\ GdWell(j)) => GdName(j) # GdName(i)
GdEarlier(i) == { GdName(j) : j \in { k \in 1..(i - 1) : GdWell(k) } }

\* value has no reference to any of the names
RefsNone(value, names) == \A n \in names : ~Contains(value, Ref(n))

(***************************************************************************)
(* C1: no forward resolution.  The value stored for a line that refers to  *)
(* no name defined on an earlier line is the text of the line itself,      *)
(* whatever the lines after it define: in both macro tables, after         *)
(* 'A = $(B)' and 'B = /p' the value of A is still '$(B)'.                 *)
(***************************************************************************)
C1_NoForwardResolution ==
    /\ \A i \in ExDone :
          (ExWell(i) /\ ExLast(i) /\ RefsNone(ExValue(i), ExEarlier(i)))
              => /\ DictHas(var_dict, ExName(i))
                 /\ DictGet(var_dict, ExName(i)) = ExValue(i)
    /\ \A i \in GdDone :
          (GdWell(i) /\ GdLast(i) /\ RefsNone(GdValue(i), GdEarlier(i)))
              => /\ DictHas(macro_dictionary, GdName(i))
                 /\ DictGet(macro_dictionary, GdName(i)) = GdValue(i)

C1_Witness ==
    /\ file = <<Line(nA, Ref(nB)), Line(nB, dirP)>>
    /\ exPc = "returned"
    /\ gdPc = "returned"
    /\ DictGet(var_dict, nA) = Ref(nB)
    /\ DictGet(var_dict, nB) = dirP
    /\ DictGet(macro_dictionary, nA) = Ref(nB)
    /\ DictGet(macro_dictionary, nB) = dirP

(***************************************************************************)
(* C2: macro expansion never fails.  Stated for Macro._replace_macros as   *)
(* get_dependencies uses it: no line of a file makes the expansion raise.  *)
(***************************************************************************)
C2_ExpansionNeverFails == gdRaised.kind # "re.error"

NoDollar(s) == \A k \in 1..Len(s) : s[k] # "$"

(***************************************************************************)
(* C3: every line of extract_support that gives a name and a value puts    *)
(* the name in the macro table, accepted as a dependency or not, and a     *)
(* later value that refers to a name whose stored value is plain text is   *)
(* stored with the reference replaced by that text.                        *)
(***************************************************************************)
C3_RegistersRegardless ==
    [][ (exPc = "loop" /\ exIdx <= Len(file) /\ ExWell(exIdx)) =>
          LET name  == ExName(exIdx)
              value == ExValue(exIdx)
          IN  /\ DictHas(var_dict', name)
              /\ \A k \in 1..Len(var_dict) :
                    (NoDollar(var_dict[k].sub) /\ Contains(value, Ref(var_dict[k].name)))
                        => /\ ~Contains(DictGet(var_dict', name), Ref(var_dict[k].name))
                           /\ Contains(DictGet(var_dict', name), var_dict[k].sub)
      ]_vars

\* B = /p is no dependency (no /p/lib), and C = $(B)/1-2 is expanded with it
C3_Witness ==
    /\ file = <<Line(nB, dirP), Line(nC, Ref(nB) \o <<"/", "1", "-", "2", " ", "#", "c">>)>>
    /\ exPc = "returned"
    /\ fs = {ReleaseFile(topA), OsPathJoin(dirP12, sLib)}
    /\ var_dict = <<[name |-> nB, sub |-> dirP], [name |-> nC, sub |-> dirP12]>>
    /\ Len(release_info) = 1
    /\ release_info[1].var = nC

(***************************************************************************)
(* C4: a line that gives a name and a value appends one record, at the end *)
(* of the list, exactly when the name is neither EPICS_RELEASE nor         *)
(* EPICS_BASE and <expanded>/lib exists; any other line appends nothing.   *)
(***************************************************************************)
C4_RecordIffAccepted ==
    [][ (exPc = "loop" /\ exIdx <= Len(file)) =>
          IF ExWell(exIdx)
          THEN LET name == ExName(exIdx)
                   path == DictGet(var_dict', name)
               IN  IF /\ name # <<"E", "P", "I", "C", "S", "_", "R", "E", "L", "E", "A", "S", "E">>
                      /\ name # <<"E", "P", "I", "C", "S", "_", "B", "A", "S", "E">>
                      /\ (path \o <<"/", "l", "i", "b">>) \in fs
                   THEN /\ Len(release_info') = Len(release_info) + 1
                        /\ SubSeq(release_info', 1, Len(release_info)) = release_info
                        /\ release_info'[Len(release_info')].var = name
                        /\ release_info'[Len(release_info')].path = path
                   ELSE release_info' = release_info
          ELSE release_info' = release_info
      ]_vars

\* EPICS_BASE = /p and EPICS_RELEASE = $(EPICS_BASE) are left out although /p/lib
\* exists, B = /p is reported
C4_Witness ==
    /\ file = <<Line(nBase, dirP), Line(nRelease, Ref(nBase)), Line(nB, dirP)>>
    /\ OsPathJoin(dirP, sLib) \in fs
    /\ exPc = "returned"
    /\ DictGet(var_dict, nRelease) = dirP
    /\ release_info = <<Support(nB, dirP, None)>>

TextBeforeHash(line) ==
    LET hashes == { k \in 1..Len(line) : line[k] = "#" }
    IN  IF hashes = {} THEN line
        ELSE SubSeq(line, 1, (CHOOSE k \in hashes : \A h \in hashes : k <= h) - 1)

CountEq(s) == Cardinality({ k \in 1..Len(s) : s[k] = "=" })

(***************************************************************************)
(* C6: extract_support reads a line without the text from the first '#',   *)
(* and a line that is then blank, or has not exactly one '=', changes      *)
(* neither the macro table nor the record list; no line raises an error.   *)
(***************************************************************************)
C6_LineHandling ==
    [][ (exPc = "loop" /\ exIdx <= Len(file)) =>
          LET text == StrStrip(TextBeforeHash(file[exIdx]))
          IN  /\ exPc' = "loop"
              /\ exRaised' = NoError
              /\ exIdx' = exIdx + 1
              /\ (text = <<>> \/ CountEq(text) # 1)
                    => (var_dict' = var_dict /\ release_info' = release_info)
              /\ \A k \in 1..Len(var_dict') :
                    /\ ~Contains(var_dict'[k].name, <<"#">>)
                    /\ ~Contains(var_dict'[k].sub, <<"#">>)
      ]_vars

\* a comment line, a line with two '=' and a line with none leave the table alone,
\* and the comment of the last line is not part of its value
C6_Witness ==
    /\ exPc = "returned"
    /\ \E i \in 1..Len(file) : StrStrip(TextBeforeHash(file[i])) = <<>>
    /\ \E i \in 1..Len(file) : CountEq(StrStrip(TextBeforeHash(file[i]))) = 2
    /\ \E i \in 1..Len(file) :
          /\ Contains(file[i], <<"#">>)
          /\ ExWell(i)
          /\ var_dict = <<[name |-> ExName(i), sub |-> ExValue(i)]>>

(***************************************************************************)
(* C7: when configure/RELEASE under the entity's top directory does not    *)
(* exist, extract_support raises an IOError that names the entity and the  *)
(* missing file, and returns no list.                                      *)
(***************************************************************************)
C7_MissingFileRaises ==
    LET missing == top \o <<"/", "c", "o", "n", "f", "i", "g", "u", "r", "e",
                            "/", "R", "E", "L", "E", "A", "S", "E">>
    IN  /\ missing \notin fs => (exPc \in {"call", "raised"} /\ release_info = <<>>)
        /\ exPc = "raised" =>
              /\ missing \notin fs
              /\ exRaised = [kind |-> "IOError", ioc_name |-> ioc_name,
                             filename |-> missing]

C7_Witness ==
    /\ exPc = "raised"
    /\ ioc_name = <<"m", "c">>
    /\ exRaised.ioc_name = <<"m", "c">>
    /\ exRaised.filename = ReleaseFile(topB)

\* the text after the last '/'
LastSegment(path) == LET segs == StrSplit(path, "/") IN segs[Len(segs)]

RECURSIVE DropDigits(_)
DropDigits(s) == IF s # <<>> /\ IsDigit(Head(s)) THEN DropDigits(Tail(s)) ELSE s

\* digits, one of the separators, a digit
BeginsRelease(seg, seps) ==
    LET rest == DropDigits(seg)
    IN  /\ Len(rest) < Len(seg)
        /\ Len(rest) >= 2
        /\ rest[1] \in seps
        /\ IsDigit(rest[2])

VersionReportedWith(seps) ==
    vPc = "reported" =>
        IF BeginsRelease(LastSegment(vPath), seps)
        THEN vMod.version = LastSegment(vPath) /\ vReported = LastSegment(vPath)
        ELSE vMod.version = None /\ vReported = vPath


(***************************************************************************)
(* C5: the reported version is the last path segment when that segment     *)
(* begins with digits, a separator and a digit, and the whole path when it *)
(* does not.  As claimed the separator is a dot or a dash; in the code it  *)
(* is a dash.                                                              *)
(***************************************************************************)
C5_VersionDotOrDash == VersionReportedWith({".", "-"})

\* C5 with the separator of the code: the reported version is the last path
\* segment when it begins with digits, a dash and a digit, else the whole path
C5_VersionDash == VersionReportedWith({"-"})

\* .../1.2 is reported as the whole path
C5_Witness ==
    /\ vPc = "reported"
    /\ vPath = dirP \o <<"/", "1", ".", "2">>
    /\ vMod.version = None
    /\ vReported = vPath

\* the request is for the 'current' version
IsCurrent(ioc_ver) == Lower(ReqVersion(ioc_ver)) = sCurrent

\* the real path of the redirector link of a request
RealOf(ioc_ver) == DictGet(links, ReqLink(ioc_ver))

\* the path has a segment named bin
HasBin(path) == InList(sBin, StrSplit(path, "/"))

\* the directory above the last segment named bin
AboveDeepestBin(path) ==
    LET segs  == StrSplit(path, "/")
        k     == CHOOSE i \in 1..Len(segs) :
                    segs[i] = sBin /\ \A j \in (i + 1)..Len(segs) : segs[j] # sBin
        above == SlashJoin(SubSeq(segs, 1, k - 1))
    IN  IF above = <<>> THEN <<"/">> ELSE above

\* the path of a request that is not 'current', written out
ExpectedPath(ioc_ver) ==
    LET v    == ReqVersion(ioc_ver)
        home == <<"/", "i", "o", "c", "/">> \o ReqTarget(ioc_ver) \o <<"/">> \o ReqSite(ioc_ver)
    IN  IF Lower(v) = <<"w", "o", "r", "k">>
        THEN ROOT \o <<"/", "w", "o", "r", "k", "/">> \o EnvRelease \o home
        ELSE IF v[1] = "/"
        THEN IF RStripSlash(v) \in fs THEN RStripSlash(v) ELSE v
        ELSE ROOT \o <<"/", "p", "r", "o", "d", "/">> \o EnvRelease \o home \o <<"/">> \o v

(***************************************************************************)
(* C8: in decode of a 'current' request, a walk that has reached the       *)
(* filesystem root ends there: its next step is the 'Non-standard          *)
(* deployment' error for the request.                                      *)
(***************************************************************************)
C8_WalkEndsAtRoot ==
    [][ (decPc = "walk" /\ decPath = <<"/">>) =>
          (decPc' = "raised" /\ decRaised' = NonStandardError(args[argIdx]))
      ]_vars

(***************************************************************************)
(* C9: the top directory of an entity decoded from a 'current' request is  *)
(* the directory above the deepest bin segment of the real path of its     *)
(* redirector link.                                                        *)
(***************************************************************************)
C9_TopAboveDeepestBin ==
    \A k \in 1..Len(ioc_details) :
        IsCurrent(args[k]) =>
            /\ HasBin(RealOf(args[k]))
            /\ ioc_details[k].top = AboveDeepestBin(RealOf(args[k]))

\* the link leads to /d/bin/t/bin/x and the top directory is /d/bin/t
C9_Witness ==
    \E k \in 1..Len(ioc_details) :
        /\ IsCurrent(args[k])
        /\ RealOf(args[k]) = realTwoBin
        /\ ioc_details[k].top = <<"/", "d", "/", "b", "i", "n", "/", "t">>

(***************************************************************************)
(* C10: decode returns an entity only when its top path exists.  A         *)
(* 'current' request without its link fails with an error that names the   *)
(* request; any other request whose path does not exist fails with an      *)
(* error that names the request and the path.                              *)
(***************************************************************************)
C10_EntityOnlyIfTopExists ==
    /\ \A k \in 1..Len(ioc_details) :
          /\ ioc_details[k].top \in fs
          /\ IsCurrent(args[k]) => RealOf(args[k]) \in fs
          /\ ~IsCurrent(args[k]) => ioc_details[k].top = ExpectedPath(args[k])
    /\ decPc = "raised" =>
          /\ decRaised.ioc_ver = args[argIdx]
          /\ decRaised.kind = "NoLink" =>
                /\ IsCurrent(args[argIdx])
                /\ ~(DictHas(links, ReqLink(args[argIdx])) /\ RealOf(args[argIdx]) \in fs)
          /\ decRaised.kind = "NoPath" =>
                /\ ~IsCurrent(args[argIdx])
                /\ decRaised.path = ExpectedPath(args[argIdx])
                /\ decRaised.path \notin fs

\* ag:work is decoded, then mc:/x/ fails on a path that does not exist
C10_Witness ==
    /\ decPc = "raised"
    /\ decRaised.kind = "NoPath"
    /\ decRaised.path = <<"/", "x", "/">>
    /\ Len(ioc_details) = 1
    /\ ioc_details[1].top = workAg

\* how many of the requests 1..k name the target of request k
Occurrence(k) ==
    Cardinality({ j \in 1..k : ReqTarget(args[j]) = ReqTarget(args[k]) })

(***************************************************************************)
(* C11: over the decode calls of one IocDecoder that succeeded, the first  *)
(* request of a target is labelled 'target' and its k-th request, k >= 2,  *)
(* 'target(k)': the labels follow the order of the requests alone.         *)
(***************************************************************************)
C11_LabelsInRequestOrder ==
    \A k \in 1..Len(ioc_details) :
        ioc_details[k].unique_id =
            IF Occurrence(k) = 1 THEN ReqTarget(args[k])
            ELSE ReqTarget(args[k]) \o <<"(">> \o Digits(Occurrence(k)) \o <<")">>

\* ag, mc:/x/ and +ag:work are decoded as ag, mc and ag(2)
C11_Witness ==
    /\ Len(ioc_details) = 3
    /\ ioc_details[1].unique_id = sAg
    /\ ioc_details[2].unique_id = sMc
    /\ ioc_details[3].unique_id = sAg \o <<"(", "2", ")">>

\* the rows of the table printed so far
Rows == SelectSeq(printed, LAMBDA l : l.kind = "row")

\* the lines of the table printed so far: the header and the rows
TableLines == SelectSeq(printed, LAMBDA l : l.kind \in {"header", "row"})

\* the request carries the leading '+'
Marked(ioc_ver) == ioc_ver # <<>> /\ ioc_ver[1] = "+"

\* the values of a row
RowValues(row) == { row.cells[k].raw : k \in 1..Len(row.cells) }

(***************************************************************************)
(* C12: in one compare run the unique_id labels of the decoded entities    *)
(* are pairwise distinct, so that ioc_info and widest hold one entry for   *)
(* each entity once every entity has been collected.                       *)
(***************************************************************************)
C12_LabelsDistinct ==
    /\ \A j, k \in 1..Len(ioc_details) :
          j # k => ioc_details[j].unique_id # ioc_details[k].unique_id
    /\ mainPc \in {"report", "rows", "done"} =>
          /\ Len(ioc_info) = Len(ioc_details)
          /\ Len(widest) = Len(ioc_details)

(***************************************************************************)
(* C13: the baseline of print_report is the first entity, in request       *)
(* order, whose request carries the '+' marker, whatever later requests    *)
(* carry; with no marked request there is no baseline and every cell of a  *)
(* differing row is coloured.                                              *)
(***************************************************************************)
C13_FirstMarkedIsBaseline ==
    mainPc \in {"rows", "done"} =>
        /\ \A k \in 1..Len(args) :
              (Marked(args[k]) /\ \A j \in 1..(k - 1) : ~Marked(args[j])) =>
                  /\ std_index = k
                  /\ \A i \in 1..Len(Rows) :
                        /\ Rows[i].cells[k].color = NoColor
                        /\ \A c \in 1..Len(Rows[i].cells) :
                              Rows[i].cells[c].color = BRIGHT_RED <=>
                                  Rows[i].cells[c].raw # Rows[i].cells[k].raw
        /\ (\A k \in 1..Len(args) : ~Marked(args[k])) =>
              /\ std_index = 0
              /\ \A i \in 1..Len(Rows) :
                    Rows[i].color = BRIGHT_RED =>
                        \A c \in 1..Len(Rows[i].cells) :
                            Rows[i].cells[c].color = BRIGHT_RED

\* ag:/a +mc:/a +ag:/b: the second entity is the baseline and the third,
\* marked as well, is coloured where it differs from the second
C13_Witness ==
    /\ mainPc = "done"
    /\ Len(args) = 3
    /\ ~Marked(args[1]) /\ Marked(args[2]) /\ Marked(args[3])
    /\ std_index = 2
    /\ \E i \in 1..Len(Rows) :
          /\ Rows[i].cells[1].color = NoColor
          /\ Rows[i].cells[2].color = NoColor
          /\ Rows[i].cells[3].color = BRIGHT_RED

(***************************************************************************)
(* C14: with no baseline, a row is printed as in agreement exactly when    *)
(* its values other than the placeholder are all the same text.            *)
(***************************************************************************)
C14_AgreementIgnoresPlaceholder ==
    \A i \in 1..Len(Rows) :
        std_index = 0 =>
            (Rows[i].color = NoColor <=>
                 Cardinality(RowValues(Rows[i]) \ {Placeholder}) <= 1)

\* C14 as the code has it: with no baseline, a row is printed as in agreement
\* exactly when all its cells, the placeholders among them, are the same text
C14_AgreementOverAllCells ==
    \A i \in 1..Len(Rows) :
        std_index = 0 =>
            /\ Rows[i].color = NoColor <=> Cardinality(RowValues(Rows[i])) = 1
            /\ \A c \in 1..Len(Rows[i].cells) :
                  Rows[i].cells[c].color = Rows[i].color

\* ag:/a mc: the row of A holds /p and the placeholder, and is coloured
C14_Witness ==
    /\ std_index = 0
    /\ \E i \in 1..Len(Rows) :
          /\ RowValues(Rows[i]) = {dirP, Placeholder}
          /\ Rows[i].color = BRIGHT_RED

(***************************************************************************)
(* C15: with a baseline, a cell is coloured as differing exactly when its  *)
(* value is not the text of the baseline's cell in the same row: a cell    *)
(* equal to the baseline's stays plain when another entity differs, and    *)
(* the baseline's own cell is never coloured.                              *)
(***************************************************************************)
C15_CellsAgainstBaseline ==
    \A i \in 1..Len(Rows) :
        std_index # 0 =>
            /\ Rows[i].cells[std_index].color = NoColor
            /\ \A c \in 1..Len(Rows[i].cells) :
                  Rows[i].cells[c].color = BRIGHT_RED <=>
                      Rows[i].cells[c].raw # Rows[i].cells[std_index].raw

\* +mc:/a ag:/a ag:/b: in the row of A the second cell equals the baseline's
\* /p and stays plain while the third, 1-2, is coloured
C15_Witness ==
    /\ std_index = 1
    /\ Len(args) = 3
    /\ \E i \in 1..Len(Rows) :
          /\ Rows[i].cells[1].raw = dirP
          /\ Rows[i].cells[2].raw = dirP
          /\ Rows[i].cells[2].color = NoColor
          /\ Rows[i].cells[3].raw = s12
          /\ Rows[i].cells[3].color = BRIGHT_RED

\* the DependencyMap of the entity deployed under a top directory: what its
\* configure/RELEASE file declares
ExpectedDeps(t) ==
    CASE t = topA -> << [name |-> nA, sub |-> dirP], [name |-> nB, sub |-> s12] >>
      [] t = topB -> << [name |-> nC, sub |-> dirP], [name |-> nA, sub |-> s12],
                        [name |-> nB, sub |-> s12] >>
      [] OTHER -> <<>>

\* the variable names of all the entities of the run
ExpectedNames ==
    UNION { { ExpectedDeps(ioc_details[k].top)[i].name :
                i \in 1..Len(ExpectedDeps(ioc_details[k].top)) } :
            k \in 1..Len(ioc_details) }

(***************************************************************************)
(* C16: the table has one row for each variable name of the union of the   *)
(* entities' DependencyMaps, the rows in lexicographic order of the name,  *)
(* and one column for each entity in the order of the requests; a cell is  *)
(* the entity's value for the variable of the row, or '---' when the       *)
(* entity does not have it.                                                *)
(***************************************************************************)
C16_MatrixRowsColumnsCells ==
    mainPc = "done" =>
        /\ { Rows[i].mod : i \in 1..Len(Rows) } = ExpectedNames
        /\ \A i, j \in 1..Len(Rows) : i < j => StrLess(Rows[i].mod, Rows[j].mod)
        /\ TableLines[1].kind = "header"
        /\ Len(TableLines[1].cells) = Len(args)
        /\ \A k \in 1..Len(args) :
              /\ ioc_details[k].target = ReqTarget(args[k])
              /\ StrStrip(TableLines[1].cells[k].text) = ioc_details[k].unique_id
        /\ \A i \in 1..Len(Rows) :
              /\ Len(Rows[i].cells) = Len(args)
              /\ \A k \in 1..Len(args) :
                    Rows[i].cells[k].raw =
                        DictGetOr(ExpectedDeps(ioc_details[k].top), Rows[i].mod, Placeholder)

\* the longest of a set of lengths, 0 for none
Longest(S) == IF S = {} THEN 0 ELSE CHOOSE n \in S : \A m \in S : m <= n

(***************************************************************************)
(* C17: the width computed for the column of an entity is the longest of   *)
(* the entity's label and of the cells of its column, and the width of the *)
(* row labels is the length of the longest variable name of the table.     *)
(***************************************************************************)
C17_ColumnAndLabelWidths ==
    mainPc = "done" =>
        /\ \A k \in 1..Len(ioc_details) :
              DictGet(widest, ioc_details[k].unique_id) =
                  Longest({ Len(ioc_details[k].unique_id) } \cup
                          { Len(Rows[i].cells[k].raw) : i \in 1..Len(Rows) })
        /\ \A i \in 1..Len(TableLines) :
              Len(TableLines[i].label) =
                  Longest({ Len(Rows[j].mod) : j \in 1..Len(Rows) })

(***************************************************************************)
(* C18: a compare run whose entities are all resolved ends with the report *)
(* printed, a column for every entity, and no error, also when some or all *)
(* of the entities have no dependencies.                                   *)
(***************************************************************************)
C18_ReportWithoutDependencies ==
    /\ mainRaised = NoError
    /\ mainPc = "done" =>
          /\ TableLines # <<>>
          /\ \A i \in 1..Len(TableLines) : Len(TableLines[i].cells) = Len(args)

(***************************************************************************)
(* C19: no line of the table is printed unless every request was decoded   *)
(* and the dependencies of every entity were extracted: every decode comes *)
(* before the first extraction, every extraction before the first line of  *)
(* the table, and a run in which a decode or an extraction failed prints   *)
(* no line of the table.                                                   *)
(***************************************************************************)
C19_NoPartialReport ==
    /\ exPc # "idle" => (decPc = "decoded" /\ Len(ioc_details) = Len(args))
    /\ TableLines # <<>> =>
          /\ decPc = "decoded"
          /\ Len(ioc_details) = Len(args)
          /\ iocIdx > Len(ioc_details)
          /\ exPc = "returned"
          /\ \A k \in 1..Len(ioc_details) : ReleaseFile(ioc_details[k].top) \in fs
    /\ (decPc = "raised" \/ exPc = "raised" \/ mainPc \in {"exit", "crashed"}) =>
          TableLines = <<>>

\* ag:/a ag:/q: the first entity is collected, the extraction of the second
\* fails, and the error is the only line printed
C19_Witness ==
    /\ mainPc = "exit"
    /\ exPc = "raised"
    /\ Len(ioc_info) = 1
    /\ all_modules # {}
    /\ Len(printed) = 1
    /\ printed[1] = ErrorLine(exRaised)

\* the segments of the link
LinkParts == StrSplit(ioc_link, "/")

\* a production link with all the segments of the convention:
\* /<root>/prod/<epics>/<area>/<target>/<site>/<release>/...
FullProdLink ==
    /\ Len(LinkParts) >= 8
    /\ LinkParts[3] = MATURITY_PROD
    /\ \A i \in 4..8 : LinkParts[i] # <<>>

(***************************************************************************)
(* C20: _split_ioc_link raises for no link; for a production link with all *)
(* the segments of the convention it returns the maturity, the EPICS       *)
(* version, the site, the target and the release of the corresponding      *)
(* segments, none of them empty; the release it returns is not empty only  *)
(* when the maturity is 'prod', so a work link has an empty release.       *)
(***************************************************************************)
C20_SplitIocLink ==
    /\ iocPc # "raised"
    /\ iocPc = "set" =>
          /\ FullProdLink =>
                /\ iocAttrs.maturity = MATURITY_PROD
                /\ iocAttrs.epics = LinkParts[4] /\ iocAttrs.epics # <<>>
                /\ iocAttrs.target_name = LinkParts[6] /\ iocAttrs.target_name # <<>>
                /\ iocAttrs.site = LinkParts[7] /\ iocAttrs.site # <<>>
                /\ iocAttrs.version = LinkParts[8] /\ iocAttrs.version # <<>>
          /\ iocAttrs.version # <<>> => iocAttrs.maturity = MATURITY_PROD
          /\ (Len(LinkParts) >= 3 /\ LinkParts[3] = MATURITY_WORK) => iocAttrs.version = <<>>

\* /gem_sw/work/R3/ioc/mcs/cp/1-8/bin/RT/b: a work link with a segment where a
\* production link has its release is returned without a release
C20_Witness ==
    /\ iocPc = "set"
    /\ LinkParts = << <<>>, sGemSw, MATURITY_WORK, sR3, sIoc, sMcs, sCp, s18, sBin, sRT, sBoot >>
    /\ iocAttrs.maturity = MATURITY_WORK
    /\ iocAttrs.epics = sR3
    /\ iocAttrs.target_name = sMcs
    /\ iocAttrs.site = sCp
    /\ iocAttrs.version = <<>>

\* the segments the convention requires of the link: up to the release for a
\* production link, up to the site for any other
RequiredParts == IF Len(LinkParts) >= 3 /\ LinkParts[3] = MATURITY_PROD THEN 8 ELSE 7

(***************************************************************************)
(* C21: _split_ioc_link returns a link with fewer segments than the        *)
(* convention requires for its maturity with the maturity 'test', never as *)
(* a 'prod' or 'work' entity with missing fields.                          *)
(***************************************************************************)
C21_ShortLinkForcedToTest ==
    (iocPc = "set" /\ Len(LinkParts) < RequiredParts) =>
        iocAttrs.maturity = MATURITY_TEST

\* C21 as the code has it: the maturity is 'test' exactly when the link has no
\* third segment or the segment is none of 'prod', 'work' and 'test'; a shorter
\* link whose third segment is 'prod' or 'work' keeps that maturity, and every
\* field whose segment is missing is empty
C21_ShortLinkKeepsMaturity ==
    iocPc = "set" =>
        /\ iocAttrs.maturity =
              IF Len(LinkParts) >= 3 /\ LinkParts[3] \in {MATURITY_PROD, MATURITY_WORK}
              THEN LinkParts[3] ELSE MATURITY_TEST
        /\ iocAttrs.maturity # MATURITY_TEST =>
              /\ Len(LinkParts) < 4 => iocAttrs.epics = <<>>
              /\ Len(LinkParts) < 6 => iocAttrs.target_name = <<>>
              /\ Len(LinkParts) < 7 => iocAttrs.site = <<>>
              /\ Len(LinkParts) < 8 => iocAttrs.version = <<>>

\* /gem_sw/prod is returned as a 'prod' entity without EPICS version, target,
\* site and release
C21_Witness ==
    /\ iocPc = "set"
    /\ LinkParts = << <<>>, sGemSw, MATURITY_PROD >>
    /\ iocAttrs.maturity = MATURITY_PROD
    /\ iocAttrs.epics = <<>>
    /\ iocAttrs.target_name = <<>>
    /\ iocAttrs.site = <<>>
    /\ iocAttrs.version = <<>>

\* the directory a listing looks into is there: the path exists and is no regular file
DirectoryExists == CatalogDirectory(catCall) \in fs \ files

\* C22: a catalog listing never raises an error; it returns the empty list when
\* the directory it would list does not exist; and every name get_epics_versions
\* returns begins with 'R' and is a directory of the maturity directory.
C22_ListingOfMissingDirectory ==
    catPc \in {"returned", "raised"} =>
        /\ catPc = "returned"
        /\ ~DirectoryExists => catResult = <<>>
        /\ catCall.fn = "get_epics_versions" =>
               \A i \in 1..Len(catResult) :
                   /\ catResult[i][1] = "R"
                   /\ OsPathJoin(CatalogDirectory(catCall), catResult[i]) \in fs \ files

\* get_ioc_list has returned the empty list for R3 where /gem_sw/prod/R3/ioc is a
\* regular file
C22_Witness ==
    /\ catPc = "returned"
    /\ catCall.fn = "get_ioc_list"
    /\ CatalogDirectory(catCall) \in files
    /\ catResult = <<>>

\* get_epics_versions has left README and redirector out of the production versions
C22_WitnessEpics ==
    /\ catPc = "returned"
    /\ catCall.fn = "get_epics_versions"
    /\ OsPathJoin(CatalogDirectory(catCall), sREADME) \in files
    /\ catResult \in {<<sR3, sR4>>, <<sR4, sR3>>}

\* extract_support on the lines of a file from the i-th, started with the macro
\* table d and the records info
RECURSIVE ExtractFrom(_, _, _, _)
ExtractFrom(lines, i, d, info) ==
    IF i > Len(lines) THEN info
    ELSE LET clean == CleanLine(lines[i])
         IN  IF clean # <<>> /\ Unpacks(clean)
             THEN LET expanded == expand_variable(d, Fields(clean)[2])
                  IN  ExtractFrom(lines, i + 1, Register(d, Fields(clean)[1], expanded),
                                  Emit(info, Fields(clean)[1], expanded))
             ELSE ExtractFrom(lines, i + 1, d, info)

\* C23: extract_support keeps no state between calls: every call starts with an
\* empty macro table, and the list a call returns is the list of a first call on
\* the same file, whatever files were read before it.
C23_NoStateBetweenCalls ==
    /\ (mainPc = "extracting" /\ exPc = "call") => var_dict = <<>>
    /\ (mainPc = "extracting" /\ exPc = "returned") =>
           release_info = ExtractFrom(FileAt(ReleaseFile(top)), 1, <<>>, <<>>)

\* /c has been read, then /a, whose table has an A, then /c again: the third call
\* returns no record, as the first did
C23_Witness ==
    /\ Len(ioc_details) = 3
    /\ iocIdx = 3
    /\ mainPc = "extracting"
    /\ exPc = "returned"
    /\ ioc_details[1].top = topC
    /\ ioc_details[2].top = topA
    /\ ioc_details[3].top = topC
    /\ var_dict # <<>>
    /\ release_info = <<>>

\* the number of lines of the file, from the i-th, that define var
RECURSIVE Definitions(_, _, _)
Definitions(lines, var, i) ==
    IF i > Len(lines) THEN 0
    ELSE (IF CleanLine(lines[i]) # <<>> /\ Unpacks(CleanLine(lines[i]))
             /\ Fields(CleanLine(lines[i]))[1] = var
          THEN 1 ELSE 0) + Definitions(lines, var, i + 1)

\* the entity whose dependencies were stored last, and the map stored for it
LastCollected == ioc_details[iocIdx - 1]
LastMap == DictGet(ioc_info, InfoKey(LastCollected))

\* C24: once the dependencies of an entity are stored, the entry of a variable
\* its RELEASE file defines more than once is the version of the last definition,
\* the value the macro table holds for the variable.
C24_LastDefinitionWins ==
    (mainPc = "extract" /\ iocIdx > 1 /\ exPc = "returned") =>
        \A i \in 1..Len(var_dict) :
            (Definitions(file, var_dict[i].name, 1) > 1 /\ DictHas(LastMap, var_dict[i].name)) =>
                DictGet(LastMap, var_dict[i].name) =
                    mod_version(Support(var_dict[i].name, var_dict[i].sub,
                                        extract_version(var_dict[i].sub)))

\* the IOCs of the redirector the walk does not skip
WalkedIocs ==
    { installed.iocs[i].name : i \in { j \in 1..Len(installed.iocs) :
          /\ ~skip_exclude(installed.iocs[j].name, exclude_list)
          /\ ~skip_epics(installed.iocs[j].epics, epics_version_list) } }

\* the support modules an IOC of the redirector depends on directly
DirectDependencies ==
    UNION { { DependenciesOf(n)[k] : k \in 1..Len(DependenciesOf(n)) } : n \in WalkedIocs }

\* no dependencies are fetched below the second level: every entity whose
\* dependencies were fetched is an IOC or a direct dependency of one, and none is
\* asked twice in its role
ReadsWithinTwoHops ==
    /\ \A i \in 1..Len(walkReads) : walkReads[i] \in WalkedIocs \cup DirectDependencies
    /\ Len(walkReads) <= Cardinality(WalkedIocs) + Cardinality(DirectDependencies)

\* C25: the walk fetches the dependencies of the IOCs of the redirector and of
\* their direct dependencies and of nothing below them, and it comes to its end
\* on every deployment, cyclic ones included.
C25_TwoHopsAndEnds == []ReadsWithinTwoHops /\ <>(walkPc = "done")

\* the walk has ended on the deployment where A and B depend on each other, and
\* has printed B as a dependency of A and A as a dependency of B
C25_Witness ==
    /\ walkPc = "done"
    /\ DependenciesOf(nA) = <<nB>>
    /\ DependenciesOf(nB) = <<nA>>
    /\ walkReads = <<sAg, sMc, nA, nB>>
    /\ \E i \in 1..Len(walkOut) : i > 1 /\ walkOut[i] = WalkLine("dep", nA)
                                   /\ walkOut[i - 1] = WalkLine("sup", nB)

\* C26: get_dependencies ends with an error when the RELEASE file cannot be
\* opened, so that the outcome differs from that of a file without dependencies.
C26_MissingFileIsAnError ==
    (gdPc \in {"returned", "raised"} /\ ~OsPathExists(ReleaseFile(top))) =>
        /\ gdPc = "raised"
        /\ gdRaised # NoError

\* C27: get_dependencies raises no error, whatever the lines of a RELEASE file
\* it can open.
C27_NoErrorOnAnyContent ==
    OsPathExists(ReleaseFile(top)) => (gdPc # "raised" /\ gdRaised = NoError)

\* every line of the file is a definition NAME = value, without comment and
\* without backslash
PlainDefinitions ==
    \A i \in 1..Len(file) :
        /\ ~Contains(file[i], <<"#">>)
        /\ ~Contains(file[i], <<"\\">>)
        /\ Len(StrSplit(file[i], "=")) = 2

\* C28: once both tools have read a file of plain definitions, the macro table
\* of extract_support and that of Macro hold the same value for every name.
C28_ExpandersAgree ==
    (exPc = "returned" /\ gdPc = "returned" /\ PlainDefinitions) =>
        /\ Len(var_dict) = Len(macro_dictionary)
        /\ \A i \in 1..Len(var_dict) :
               /\ DictHas(macro_dictionary, var_dict[i].name)
               /\ DictGet(macro_dictionary, var_dict[i].name) = var_dict[i].sub

\* C29: once the report is printed, the width of every column is at least the
\* length of each of its cells, the placeholder included, and the padded cells of
\* a column are all of one length.
C29_WidthCoversEveryCell ==
    mainPc = "done" =>
        \A k \in 1..Len(ioc_details) :
            /\ \A i \in 1..Len(Rows) :
                   Len(Rows[i].cells[k].raw) <= DictGet(widest, ioc_details[k].unique_id)
            /\ \A i, j \in 1..Len(Rows) :
                   Len(Rows[i].cells[k].text) = Len(Rows[j].cells[k].text)

\* the names asked for among the dependencies of the instances of an IOC target
ExpectedOf(ioc) ==
    { n \in { requested[i] : i \in 1..Len(requested) } :
        \E k \in 1..Len(ioc.instances) : InList(n, ioc.instances[k].deps) }

\* the set printed for an IOC target in the report of an EPICS version
ReportedOf(epics, target) ==
    UNION { whatOut[i].names : i \in { j \in 1..Len(whatOut) :
                /\ whatOut[j].epics = epics
                /\ whatOut[j].kind = "ioc"
                /\ whatOut[j].item = target } }

\* C30: the report ends without error, and the set it prints for every IOC
\* target of an EPICS version is the set of the names asked for that occur among
\* the dependencies of the target's instances.
C30_TargetsKeepTheirNames ==
    /\ whatPc # "crashed"
    /\ whatPc = "done" =>
           \A v \in 1..Len(production) :
               \A k \in 1..Len(production[v].iocs) :
                   ReportedOf(production[v].epics, production[v].iocs[k].target) =
                       ExpectedOf(production[v].iocs[k])

====
